---- MODULE Spec2Model ----
(***************************************************************************)
(* Withdrawal execution pipeline of the wallet ledger: deposits, scheduled *)
(* withdrawals, executor workers (claim / bank transfer / finalize, stale  *)
(* PROCESSING recovery), the direct execute_withdrawal service, the        *)
(* reconciler, and a bank that deduplicates transfers by idempotency key.  *)
(* Every database unit of work (transaction.atomic with row locks) is one  *)
(* atomic step; bank calls happen between steps, one HTTP attempt a step.  *)
(*                                                                         *)
(* Transaction.Status is the enum of models/transaction.py, which has no   *)
(* UNKNOWN member: a statement that reads Transaction.Status.UNKNOWN       *)
(* raises AttributeError and its unit of work rolls back.  Settings that   *)
(* the workers read are configuration: `config` and the values below.      *)
(* The table starts with one SCHEDULED withdrawal that is already due;     *)
(* further rows come from deposit and schedule_withdrawal.  `returned`     *)
(* holds what the call that ended in the last step returned or raised.     *)
(* `hist` is history kept beside the rows: debits, refunds, keys sent.     *)
(***************************************************************************)
EXTENDS Integers, Sequences, FiniteSets, TLC

\* ---------------------------------------------------------------- bounds
MaxTx == 2          \* rows the transaction table may hold
MaxTime == 1        \* the clock runs 0..MaxTime
MaxAmount == 1      \* amounts offered to deposit / schedule_withdrawal: 0..MaxAmount
MaxLimit == 1       \* `limit` offered to an executor run: 0..MaxLimit

InitialBalance == 1 \* the balance the wallet starts with

\* ---------------------------------------------------- configuration values
\* Django settings, read from the environment: each is set to a small value
\* its validation in settings.py accepts (clock ticks stand for seconds).
WITHDRAWAL_PROCESSING_STALE_SECONDS == 1
WITHDRAWAL_PROCESSING_TIMEOUT_SECONDS == 1
EXECUTOR_LOCK_CONTENTION_MAX_RETRIES == 1
BANK_RETRY_MAX_ATTEMPTS == 2

Wallets == {1}
Executors == {"e1", "e2"}
Callers == {"s1"}
Sessions == {"c1", "c2", "c3"}  \* database connections, one unit of work each

None == "None"      \* Python None in a text field
NoKey == 0          \* Python None in idempotency_key / a reference
NoTime == -1        \* Python None in execute_at

VARIABLES
    clock,          \* timezone.now()
    balance,        \* Wallet.balance, by wallet id
    transactions,   \* the Transaction table: row id = index
    tasks,          \* the WithdrawalReconciliationTask table: row id = index
    config,         \* settings read by the workers
    bank,           \* the bank's record per idempotency key
    executors,      \* one execute_due_withdrawals run per executor worker
    callers,        \* one WithdrawalService.execute_withdrawal call per caller
    returned,       \* what the call that ended in the last step returned or raised
    hist,           \* per transaction id: what has been done for it so far
    units,          \* per database session: the unit of work it has open
    ensuring        \* per worker: its call of ensure_transaction_idempotency_key

vars == <<clock, balance, transactions, tasks, config, bank, executors, callers,
          returned, hist, units, ensuring>>

\* ------------------------------------------------------------ the models
\* src/wallets/models/transaction.py: Transaction.Type
Type == {"DEPOSIT", "WITHDRAWAL"}

\* a Transaction.Status that has the member UNKNOWN
StatusWithUnknown == {"SCHEDULED", "PROCESSING", "SUCCEEDED", "FAILED", "UNKNOWN"}

\* src/wallets/models/transaction.py: Transaction.Status (four members)
Status == {"SCHEDULED", "PROCESSING", "SUCCEEDED", "FAILED"}

\* src/wallets/integrations/bank_client.py: TransferOutcome
TransferOutcome == {"SUCCESS", "FINAL_FAILURE", "UNKNOWN"}

TxIds == 1..Len(transactions)

Withdrawals == {t \in TxIds : transactions[t].type = "WITHDRAWAL"}

UsedKeys == {transactions[t].idempotency_key : t \in TxIds} \ {NoKey}

\* Transaction.Meta.constraints and the unique idempotency_key column: what the
\* database accepts as a new row beside the rows already there.
RowAccepted(row) ==
    /\ row.amount > 0
    /\ \/ row.type = "DEPOSIT" /\ row.execute_at = NoTime
       \/ row.type = "WITHDRAWAL" /\ row.execute_at # NoTime
    /\ \/ row.type = "DEPOSIT" /\ row.idempotency_key = NoKey
       \/ row.type = "WITHDRAWAL" /\ row.idempotency_key # NoKey
    /\ row.idempotency_key = NoKey \/ row.idempotency_key \notin UsedKeys

NewRow(w, type, status, amount, execute_at, key) ==
    [wallet |-> w, type |-> type, status |-> status, amount |-> amount,
     execute_at |-> execute_at, idempotency_key |-> key,
     external_reference |-> NoKey, bank_reference |-> NoKey,
     failure_reason |-> None, updated_at |-> clock]

NewHist ==
    [debits |-> 0, refunds |-> 0, refund_outcome |-> None,
     ever_processing |-> FALSE, first_key |-> NoKey, bank_keys |-> {},
     queried_in_unit |-> FALSE, limiter_unavailable |-> FALSE]

\* uuid4().hex: a key no row uses yet (the least unused one stands for all of
\* them), or, by collision, a key some row already uses.
FreshKey == CHOOSE k \in 1..MaxTx : k \notin UsedKeys /\ \A j \in 1..(k - 1) : j \in UsedKeys

generate_idempotency_key == {FreshKey} \cup UsedKeys

\* a validation that accepts an execute_at equal to now
ExecuteAtNotInPast(execute_at) == execute_at >= clock

\* src/wallets/domain/policies.py
validate_positive_amount(amount) == amount > 0

validate_future_execute_at(execute_at) == execute_at > clock

\* ------------------------------------------------------------- the store
\* The three tables (and the history kept beside them) as one value: a unit
\* of work maps a store to a store, and a unit that raises leaves the store
\* as it found it (transaction.atomic rolls back).
Store == [balance |-> balance, transactions |-> transactions, tasks |-> tasks,
          hist |-> hist]

\* transaction.atomic(): no unit of work open on the connection
IdleUnit == [kind |-> None, rows |-> <<>>, held |-> 0, target |-> 0, written |-> FALSE]

NoUnits == [s \in Sessions |-> IdleUnit]

\* no call of ensure_transaction_idempotency_key in progress
IdleEnsure == [pc |-> "idle", pk |-> 0, idempotency_key |-> NoKey,
               candidate |-> NoKey, attempt |-> 0, result |-> NoKey, raised |-> None]

NoEnsure == [e \in Executors |-> IdleEnsure]

\* a call ends: its return value, or the exception that leaves it
Return(call, value, raised) ==
    returned' = [call |-> call, value |-> value, raised |-> raised]

\* no call ends in this step
NoReturn == returned' = [call |-> "None", value |-> 0, raised |-> None]

\* a save whose update_fields leave out "updated_at"
SaveStatusKeepsUpdatedAt(db, t, status, reason) ==
    [db EXCEPT !.transactions[t].status = status,
               !.transactions[t].failure_reason = reason,
               !.hist[t].ever_processing = @ \/ status = "PROCESSING",
               !.hist[t].first_key =
                   IF status = "PROCESSING" /\ ~db.hist[t].ever_processing
                   THEN db.transactions[t].idempotency_key ELSE @]

\* Model.save(update_fields=[..., "updated_at"]): auto_now stamps updated_at.
SaveStatus(db, t, status, reason) ==
    [db EXCEPT !.transactions[t].status = status,
               !.transactions[t].failure_reason = reason,
               !.transactions[t].updated_at = clock,
               !.hist[t].ever_processing = @ \/ status = "PROCESSING",
               !.hist[t].first_key =
                   IF status = "PROCESSING" /\ ~db.hist[t].ever_processing
                   THEN db.transactions[t].idempotency_key ELSE @]

\* a debit that is not conditional on the balance
DebitAlwaysApplies(bal, amount) == TRUE

\* a debit conditional only on the balance not being negative already
DebitAppliesToAnyCredit(bal, amount) == bal >= 0

\* Wallet.objects.filter(pk=..., balance__gte=amount).update(...): rows updated
ConditionalDebitApplies(bal, amount) == bal >= amount

Debit(db, t) ==
    [db EXCEPT !.balance[db.transactions[t].wallet] = @ - db.transactions[t].amount,
               !.hist[t].debits = @ + 1]

\* a refund that marks the withdrawal FAILED without crediting the wallet
RefundNotCredited(db, t, outcome) ==
    [db EXCEPT !.hist[t].refunds = @ + 1, !.hist[t].refund_outcome = outcome]

\* Wallet.objects.filter(pk=wallet.pk).update(balance=F("balance") + tx.amount)
Refund(db, t, outcome) ==
    [db EXCEPT !.balance[db.transactions[t].wallet] = @ + db.transactions[t].amount,
               !.hist[t].refunds = @ + 1,
               !.hist[t].refund_outcome = outcome]

\* an ordered queryset that is ordered by id alone
FirstById(db, S, field) ==
    IF S = {} THEN 0
    ELSE CHOOSE t \in S : \A u \in S : t <= u

\* the first row of an ordered queryset: least (field, id)
FirstBy(db, S, field) ==
    IF S = {} THEN 0
    ELSE CHOOSE t \in S : \A u \in S :
            \/ db.transactions[t][field] < db.transactions[u][field]
            \/ db.transactions[t][field] = db.transactions[u][field] /\ t <= u

\* ------------------------------------------------------ domain services
\* WalletService.deposit
deposit(w, amount, key) ==
    /\ IF ~validate_positive_amount(amount)
       THEN /\ Return("deposit", 0, "InvalidAmount")
            /\ UNCHANGED <<balance, transactions, hist>>
       ELSE IF key = NoKey
       THEN /\ balance' = [balance EXCEPT ![w] = @ + amount]
            /\ transactions' = Append(transactions,
                   NewRow(w, "DEPOSIT", "SUCCEEDED", amount, NoTime, NoKey))
            /\ hist' = Append(hist, NewHist)
            /\ Return("deposit", Len(transactions) + 1, None)
       ELSE IF key \in UsedKeys
       THEN \* get_or_create finds the row: every keyed row is a WITHDRAWAL
            LET tx == CHOOSE t \in TxIds : transactions[t].idempotency_key = key
                conflict == \/ transactions[tx].type # "DEPOSIT"
                            \/ transactions[tx].wallet # w
                            \/ transactions[tx].amount # amount
            IN  /\ Return("deposit", IF conflict THEN 0 ELSE tx,
                          IF conflict THEN "IdempotencyConflict" ELSE None)
                /\ UNCHANGED <<balance, transactions, hist>>
       ELSE LET row == NewRow(w, "DEPOSIT", "SUCCEEDED", amount, NoTime, key)
            IN  IF RowAccepted(row)
                THEN /\ transactions' = Append(transactions, row)
                     /\ hist' = Append(hist, NewHist)
                     /\ balance' = [balance EXCEPT ![w] = @ + amount]
                     /\ Return("deposit", Len(transactions) + 1, None)
                ELSE /\ Return("deposit", 0, "IntegrityError")
                     /\ UNCHANGED <<balance, transactions, hist>>
    /\ UNCHANGED <<clock, tasks, config, ensuring, units, bank, executors, callers>>

\* a payload check that does not compare execute_at
PayloadDiffersButForExecuteAt(tx, w, amount, execute_at) ==
    \/ tx.type # "WITHDRAWAL"
    \/ tx.wallet # w
    \/ tx.amount # amount

\* the `if not created:` payload check of schedule_withdrawal on the row
\* get_or_create found
WithdrawalPayloadDiffers(tx, w, amount, execute_at) ==
    \/ tx.type # "WITHDRAWAL"
    \/ tx.wallet # w
    \/ tx.amount # amount
    \/ tx.execute_at # execute_at

\* WithdrawalService.schedule_withdrawal
schedule_withdrawal(w, amount, execute_at, key) ==
    /\ IF ~validate_positive_amount(amount)
       THEN /\ Return("schedule_withdrawal", 0, "InvalidAmount")
            /\ UNCHANGED <<transactions, hist>>
       ELSE IF ~validate_future_execute_at(execute_at)
       THEN /\ Return("schedule_withdrawal", 0, "InvalidExecuteAt")
            /\ UNCHANGED <<transactions, hist>>
       ELSE IF key = NoKey
       THEN \E k \in generate_idempotency_key :
              LET row == NewRow(w, "WITHDRAWAL", "SCHEDULED", amount, execute_at, k)
              IN  IF RowAccepted(row)
                  THEN /\ transactions' = Append(transactions, row)
                       /\ hist' = Append(hist, NewHist)
                       /\ Return("schedule_withdrawal", Len(transactions) + 1, None)
                  ELSE /\ Return("schedule_withdrawal", 0, "IntegrityError")
                       /\ UNCHANGED <<transactions, hist>>
       ELSE IF key \in UsedKeys
       THEN LET tx == CHOOSE t \in TxIds : transactions[t].idempotency_key = key
                conflict == WithdrawalPayloadDiffers(transactions[tx], w, amount,
                                                     execute_at)
            IN  /\ Return("schedule_withdrawal", IF conflict THEN 0 ELSE tx,
                          IF conflict THEN "IdempotencyConflict" ELSE None)
                /\ UNCHANGED <<transactions, hist>>
       ELSE /\ transactions' = Append(transactions,
                   NewRow(w, "WITHDRAWAL", "SCHEDULED", amount, execute_at, key))
            /\ hist' = Append(hist, NewHist)
            /\ Return("schedule_withdrawal", Len(transactions) + 1, None)
    /\ UNCHANGED <<clock, balance, tasks, config, ensuring, units, bank, executors, callers>>

\* time passes
Tick ==
    /\ clock < MaxTime
    /\ clock' = clock + 1
    /\ NoReturn
    /\ UNCHANGED <<balance, transactions, tasks, config, ensuring, units, bank, executors, callers, hist>>

\* ------------------------------------------------------- the bank gateway
\* TransferResult.succeeded / final_failure / unknown
TransferResult(outcome, reference, error_reason) ==
    [outcome |-> outcome, reference |-> reference, error_reason |-> error_reason]

NoResult == TransferResult("None", NoKey, None)

\* HTTP responses the bank endpoint may give. body = "object" is a JSON object,
\* "array" is JSON that is not an object, "garbage" is not JSON.
Response(status_code, body, status, data, error_reason, reference) ==
    [status_code |-> status_code, body |-> body, status |-> status, data |-> data,
     error_reason |-> error_reason, reference |-> reference]

\* BankGateway._normalize_response; "AttributeError" when body.get is called on
\* JSON that is not an object.
_normalize_response(response, fallback_reference) ==
    IF response.body = "garbage"
    THEN TransferResult("UNKNOWN", NoKey, "invalid_json_response_http")
    ELSE IF response.body = "array"
    THEN TransferResult("RAISED", NoKey, "AttributeError")
    ELSE LET normalized_status ==
                 IF response.status = NoTime THEN response.status_code
                 ELSE response.status
             http_success == 200 <= response.status_code /\ response.status_code < 300
             failure_reason ==
                 IF response.error_reason # None THEN response.error_reason
                 ELSE IF response.data # None THEN response.data
                 ELSE "upstream_status"
         IN  IF http_success /\ normalized_status = 200 /\ response.data = "success"
             THEN TransferResult("SUCCESS",
                      IF response.reference # NoKey THEN response.reference
                      ELSE fallback_reference, None)
             ELSE IF response.status_code >= 500
             THEN TransferResult("UNKNOWN", NoKey, failure_reason)
             ELSE TransferResult("FINAL_FAILURE", NoKey, failure_reason)

\* What one HTTP attempt for idempotency key k can meet. The bank deduplicates
\* by key: the first request it processes for k decides "executed" or
\* "rejected" for good, a later request with k has no further effect and gets
\* the recorded answer. A request can be lost before or after the bank
\* processed it, throttled (429) before processing, or answered by a broken
\* upstream (5xx, a body that is not a JSON object) either way.
BankDecisions(k) == IF bank[k] = "none" THEN {"executed", "rejected"} ELSE {bank[k]}

HonestResponse(k, decision) ==
    IF decision = "executed"
    THEN Response(200, "object", 200, "success", None, k)
    ELSE Response(400, "object", 400, "failed", "bank_rejected", NoKey)

BrokenResponses ==
    {Response(500, "object", NoTime, None, None, NoKey),
     Response(200, "array", NoTime, None, None, NoKey)}

NetworkRequestFailed == Response(0, "none", NoTime, None, None, NoKey)

TooManyRequests == Response(429, "object", 429, None, None, NoKey)

BankExchanges(k) ==
    IF config.bank_always_succeeds
    THEN {[bank |-> "executed", response |-> HonestResponse(k, "executed")]}
    ELSE {[bank |-> bank[k], response |-> r] :
             r \in {NetworkRequestFailed, TooManyRequests} \cup BrokenResponses}
         \cup {[bank |-> d, response |-> r] :
                 d \in BankDecisions(k),
                 r \in {NetworkRequestFailed} \cup BrokenResponses}
         \cup {[bank |-> d, response |-> HonestResponse(k, d)] : d \in BankDecisions(k)}

\* build_rate_limiter and what rate_limiter.acquire(cost=1) can do: the no-op
\* limiter when BANK_MAX_RPS <= 0; otherwise the shared token bucket, which
\* grants the token (after waiting as long as it takes) or raises
\* RateLimiterUnavailable when its backend fails.
LimiterOutcomes ==
    IF config.bank_max_rps <= 0 THEN {"noop"} ELSE {"acquired", "unavailable"}

\* an acquire whose RateLimiterUnavailable is not caught
AcquireLetsUnavailableEscape(limiter) ==
    IF limiter = "unavailable"
    THEN [wait_seconds |-> 0, warning |-> None, raised |-> "RateLimiterUnavailable"]
    ELSE [wait_seconds |-> 0, warning |-> None, raised |-> None]

\* BankGateway._acquire_rate_limit: `except RateLimiterUnavailable:` logs a
\* warning and returns 0.0; otherwise it returns the time acquire waited
\* (waits take no clock tick here)
_acquire_rate_limit(limiter) ==
    IF limiter = "unavailable"
    THEN [wait_seconds |-> 0, warning |-> "bank_rate_limit_unavailable", raised |-> None]
    ELSE [wait_seconds |-> 0, warning |-> None, raised |-> None]

\* what one pass of the loop of BankGateway.transfer can meet: the limiter,
\* then the HTTP exchange
HttpAttempts(k) ==
    {[bank |-> x.bank, response |-> x.response, limiter |-> l] :
        x \in BankExchanges(k), l \in LimiterOutcomes}

\* the pass gets as far as http_client.post_json
Sent(a) == _acquire_rate_limit(a.limiter).raised = None

\* One pass of the `for attempt in range(1, max_attempts + 1)` loop of
\* BankGateway.transfer on the response it got: the TransferResult it returns,
\* or NoResult when the loop goes on to the next attempt.
transfer_attempt(attempt, response, idempotency_key) ==
    IF response = NetworkRequestFailed
    THEN IF attempt < BANK_RETRY_MAX_ATTEMPTS THEN NoResult
         ELSE TransferResult("UNKNOWN", NoKey, "network_error")
    ELSE IF response.status_code = 429
    THEN IF attempt < BANK_RETRY_MAX_ATTEMPTS THEN NoResult
         ELSE TransferResult("FINAL_FAILURE", NoKey, "rate_limited")
    ELSE _normalize_response(response, idempotency_key)

\* one pass of the loop from its top: _acquire_rate_limit, then the attempt
transfer_pass(attempt, a, idempotency_key) ==
    IF ~Sent(a)
    THEN TransferResult("RAISED", NoKey, _acquire_rate_limit(a.limiter).raised)
    ELSE transfer_attempt(attempt, a.response, idempotency_key)

\* ---------------------------------------------------- the executor worker
ZeroSummary ==
    [processed |-> 0, succeeded |-> 0, failed |-> 0, insufficient_funds |-> 0,
     reconciliation_queued |-> 0, unknown |-> 0]

\* ClaimedWithdrawal
ClaimedWithdrawal(db, t) ==
    [transaction_id |-> t, wallet_owner_ref |-> db.transactions[t].wallet,
     amount |-> db.transactions[t].amount,
     idempotency_key |-> db.transactions[t].idempotency_key]

NoClaim == [transaction_id |-> 0, wallet_owner_ref |-> 0, amount |-> 0,
            idempotency_key |-> NoKey]

IdleExecutor ==
    [pc |-> "idle", now |-> 0, limit |-> 0, summary |-> ZeroSummary,
     lock_contention_retries |-> 0, claim |-> NoClaim, attempt |-> 0,
     transfer_result |-> NoResult]

\* what a unit of work hands back: the store it leaves, its return value, the
\* claim it made and the exception it raised
Unit(db, outcome, claim, raised) ==
    [db |-> db, outcome |-> outcome, claim |-> claim, raised |-> raised]

\* a key helper that generates a new key whether or not the row has one
RegenerateKey(db, t) ==
    {k \in 1..MaxTx : \A u \in 1..Len(db.transactions) :
                         db.transactions[u].idempotency_key # k}

\* ensure_transaction_idempotency_key: the keys it can return for row t, or
\* NoKey when it raises RuntimeError after three colliding candidates.
ensure_transaction_idempotency_key(db, t) ==
    IF db.transactions[t].idempotency_key # NoKey
    THEN {db.transactions[t].idempotency_key}
    ELSE {FreshKey} \cup (IF UsedKeys # {} THEN {NoKey} ELSE {})

SetKey(db, t, key) == [db EXCEPT !.transactions[t].idempotency_key = key]

\* _queue_reconciliation_task: get_or_create on the one-to-one transaction
_queue_reconciliation_task(db, t, reason) ==
    IF \E i \in 1..Len(db.tasks) : db.tasks[i].transaction = t
    THEN db
    ELSE [db EXCEPT !.tasks = Append(@, [transaction |-> t, reason |-> reason,
                                          status |-> "PENDING", created_at |-> clock])]

\* _mark_unknown_and_queue_reconciliation: its first statement reads
\* Transaction.Status.UNKNOWN, which raises AttributeError unless the enum has
\* that member.
_mark_unknown_and_queue_reconciliation(db, t, reason) ==
    IF "UNKNOWN" \notin Status
    THEN Unit(db, "raised", NoClaim, "AttributeError")
    ELSE Unit(_queue_reconciliation_task(SaveStatus(db, t, "UNKNOWN", reason), t,
                                         "UNKNOWN_TRANSFER_OUTCOME"),
              "unknown", NoClaim, None)

\* a due queryset with execute_at__lt=now
DueStrictlyBefore(db, now) ==
    {t \in 1..Len(db.transactions) :
        /\ db.transactions[t].type = "WITHDRAWAL"
        /\ db.transactions[t].status = "SCHEDULED"
        /\ db.transactions[t].execute_at < now}

\* a due queryset that leaves out the status filter
DueOfAnyStatus(db, now) ==
    {t \in 1..Len(db.transactions) :
        /\ db.transactions[t].type = "WITHDRAWAL"
        /\ db.transactions[t].execute_at <= now}

DueWithdrawals(db, now) ==
    {t \in 1..Len(db.transactions) :
        /\ db.transactions[t].type = "WITHDRAWAL"
        /\ db.transactions[t].status = "SCHEDULED"
        /\ db.transactions[t].execute_at <= now}

StaleProcessing(db, now, stale_after_seconds) ==
    {t \in 1..Len(db.transactions) :
        /\ db.transactions[t].type = "WITHDRAWAL"
        /\ db.transactions[t].status = "PROCESSING"
        /\ db.transactions[t].updated_at <= now - stale_after_seconds}

\* a claim that hands out the withdrawal without committing the debit and
\* the PROCESSING status
ClaimNotCommitted(db, now) ==
    LET tx == FirstBy(db, DueWithdrawals(db, now), "execute_at")
    IN  IF tx = 0 THEN {Unit(db, "none", NoClaim, None)}
        ELSE {Unit(db, "claimed", ClaimedWithdrawal(db, tx), None)}

\* _claim_next_due_withdrawal: the units of work it can be
_claim_next_due_withdrawal(db, now) ==
    LET tx == FirstBy(db, DueWithdrawals(db, now), "execute_at")
    IN  IF tx = 0 THEN {Unit(db, "none", NoClaim, None)}
        ELSE IF ~ConditionalDebitApplies(db.balance[db.transactions[tx].wallet],
                                         db.transactions[tx].amount)
        THEN {Unit(SaveStatus(db, tx, "FAILED", "INSUFFICIENT_FUNDS"),
                   "insufficient_funds", NoClaim, None)}
        ELSE {IF key = NoKey
              THEN Unit(db, "raised", NoClaim, "RuntimeError")
              ELSE LET done == SaveStatus(SetKey(Debit(db, tx), tx, key), tx,
                                          "PROCESSING", None)
                   IN  Unit(done, "claimed", ClaimedWithdrawal(done, tx), None)
              : key \in ensure_transaction_idempotency_key(db, tx)}

\* a reclaim that debits the wallet as the first claim did
ReclaimDebitsAgain(db, now, stale_after_seconds) ==
    LET tx == FirstBy(db, StaleProcessing(db, now, stale_after_seconds), "updated_at")
    IN  IF tx = 0 THEN {Unit(db, "none", NoClaim, None)}
        ELSE {IF key = NoKey
              THEN Unit(db, "raised", NoClaim, "RuntimeError")
              ELSE LET done == SaveStatus(SetKey(Debit(db, tx), tx, key), tx,
                                          db.transactions[tx].status, None)
                   IN  Unit(done, "claimed", ClaimedWithdrawal(done, tx), None)
              : key \in ensure_transaction_idempotency_key(db, tx)}

\* _claim_stale_processing_withdrawal
_claim_stale_processing_withdrawal(db, now, stale_after_seconds) ==
    LET tx == FirstBy(db, StaleProcessing(db, now, stale_after_seconds), "updated_at")
    IN  IF tx = 0 THEN {Unit(db, "none", NoClaim, None)}
        ELSE {IF key = NoKey
              THEN Unit(db, "raised", NoClaim, "RuntimeError")
              ELSE LET done == SaveStatus(SetKey(db, tx, key), tx,
                                          db.transactions[tx].status, None)
                   IN  Unit(done, "claimed", ClaimedWithdrawal(done, tx), None)
              : key \in ensure_transaction_idempotency_key(db, tx)}

\* _queue_stale_processing_for_reconciliation
_queue_stale_processing_for_reconciliation(db, now, stale_after_seconds) ==
    LET tx == FirstBy(db, StaleProcessing(db, now, stale_after_seconds), "updated_at")
        marked == _mark_unknown_and_queue_reconciliation(db, tx, "RECONCILIATION_REQUIRED")
        created == Len(marked.db.tasks) > Len(db.tasks)
    IN  IF tx = 0 THEN {Unit(db, "none", NoClaim, None)}
        ELSE IF marked.raised # None THEN {marked}
        ELSE {Unit(IF created
                   THEN [marked.db EXCEPT !.tasks[Len(marked.db.tasks)].reason =
                                             "STALE_PROCESSING_WITHOUT_BANK_IDEMPOTENCY"]
                   ELSE marked.db,
                   "reconciliation_queued", NoClaim, None)}

\* a finalize that does not look at the status the row has by now
FinalizeAnyStatus(db, claim, transfer_result) ==
    LET tx == claim.transaction_id
    IN  IF transfer_result.outcome = "SUCCESS"
        THEN Unit([SaveStatus(db, tx, "SUCCEEDED", None)
                      EXCEPT !.transactions[tx].external_reference = transfer_result.reference,
                             !.transactions[tx].bank_reference = transfer_result.reference],
                  "succeeded", NoClaim, None)
        ELSE IF transfer_result.outcome = "UNKNOWN"
        THEN _mark_unknown_and_queue_reconciliation(db, tx,
                 IF transfer_result.error_reason # None
                 THEN transfer_result.error_reason ELSE "UNKNOWN_TRANSFER_OUTCOME")
        ELSE Unit(SaveStatus(Refund(db, tx, transfer_result.outcome), tx, "FAILED",
                             IF transfer_result.error_reason # None
                             THEN transfer_result.error_reason
                             ELSE "BANK_TRANSFER_FAILED"),
                  "failed", NoClaim, None)

\* _finalize_claimed_withdrawal
_finalize_claimed_withdrawal(db, claim, transfer_result) ==
    LET tx == claim.transaction_id
    IN  IF db.transactions[tx].status # "PROCESSING"
        THEN Unit(db, "skipped", NoClaim, None)
        ELSE IF transfer_result.outcome = "SUCCESS"
        THEN Unit([SaveStatus(db, tx, "SUCCEEDED", None)
                      EXCEPT !.transactions[tx].external_reference = transfer_result.reference,
                             !.transactions[tx].bank_reference = transfer_result.reference],
                  "succeeded", NoClaim, None)
        ELSE IF transfer_result.outcome = "UNKNOWN"
        THEN _mark_unknown_and_queue_reconciliation(db, tx,
                 IF transfer_result.error_reason # None
                 THEN transfer_result.error_reason ELSE "UNKNOWN_TRANSFER_OUTCOME")
        ELSE Unit(SaveStatus(Refund(db, tx, transfer_result.outcome), tx, "FAILED",
                             IF transfer_result.error_reason # None
                             THEN transfer_result.error_reason
                             ELSE "BANK_TRANSFER_FAILED"),
                  "failed", NoClaim, None)

\* the store a unit of work commits
Commit(db) ==
    /\ balance' = db.balance
    /\ transactions' = db.transactions
    /\ tasks' = db.tasks
    /\ hist' = db.hist

\* the run of executor e goes on as `run`, or ends: pc "done" returns the
\* summary, pc "raised" lets the exception in transfer_result.error_reason out
Continue(e, run) ==
    IF run.pc = "done"
    THEN /\ executors' = [executors EXCEPT ![e] = IdleExecutor]
         /\ Return("execute_due_withdrawals", run.summary, None)
    ELSE IF run.pc = "raised"
    THEN /\ executors' = [executors EXCEPT ![e] = IdleExecutor]
         /\ Return("execute_due_withdrawals", ZeroSummary, run.transfer_result.error_reason)
    ELSE /\ executors' = [executors EXCEPT ![e] = run]
         /\ NoReturn

\* a loop that runs one more iteration once the limit is reached
LoopHeadPastLimit(run) ==
    IF run.summary.processed <= run.limit
    THEN [run EXCEPT !.pc = "claim", !.claim = NoClaim, !.attempt = 0,
                     !.transfer_result = NoResult]
    ELSE [run EXCEPT !.pc = "done"]

\* `while processed < limit`: the next iteration, or the summary is returned
LoopHead(run) ==
    IF run.summary.processed < run.limit
    THEN [run EXCEPT !.pc = "claim", !.claim = NoClaim, !.attempt = 0,
                     !.transfer_result = NoResult]
    ELSE [run EXCEPT !.pc = "done"]

\* an exception leaves execute_due_withdrawals: no summary is returned
Escapes(run, raised) ==
    [run EXCEPT !.pc = "raised", !.transfer_result = TransferResult("None", NoKey, raised)]

Count(run, fields) ==
    [run EXCEPT !.summary = [f \in DOMAIN @ |-> IF f \in fields THEN @[f] + 1 ELSE @[f]]]

\* execute_due_withdrawals up to the loop
ExecutorStart(e, limit) ==
    /\ executors[e].pc = "idle"
    /\ Continue(e, IF limit <= 0 THEN [IdleExecutor EXCEPT !.pc = "done"]
                   ELSE [IdleExecutor EXCEPT !.pc = "claim", !.now = clock,
                                             !.limit = limit])
    /\ UNCHANGED <<clock, balance, transactions, tasks, config, ensuring, units, bank, callers, hist>>

\* the claim step of one iteration: the units of work it can run
ClaimStep(db, now) ==
    UNION {IF u.outcome # "none" THEN {u}
           ELSE IF config.bank_honors_idempotency
           THEN _claim_stale_processing_withdrawal(db, now,
                    WITHDRAWAL_PROCESSING_STALE_SECONDS)
           ELSE _queue_stale_processing_for_reconciliation(db, now,
                    WITHDRAWAL_PROCESSING_STALE_SECONDS)
           : u \in _claim_next_due_withdrawal(db, now)}

\* an iteration that does not count a refused withdrawal as insufficient_funds
AfterClaimCountsFailedOnly(run, u) ==
    IF u.raised # None THEN Escapes(run, u.raised)
    ELSE IF u.outcome = "none" THEN [run EXCEPT !.pc = "done"]
    ELSE IF u.outcome = "insufficient_funds"
    THEN LoopHead(Count([run EXCEPT !.lock_contention_retries = 0],
                        {"processed", "failed"}))
    ELSE IF u.outcome = "reconciliation_queued"
    THEN LoopHead(Count([run EXCEPT !.lock_contention_retries = 0],
                        {"processed", "reconciliation_queued"}))
    ELSE [run EXCEPT !.lock_contention_retries = 0, !.pc = "bank", !.claim = u.claim,
                     !.attempt = 1]

\* the rest of the iteration after the claim step
AfterClaim(run, u) ==
    IF u.raised # None THEN Escapes(run, u.raised)
    ELSE IF u.outcome = "none" THEN [run EXCEPT !.pc = "done"]
    ELSE IF u.outcome = "insufficient_funds"
    THEN LoopHead(Count([run EXCEPT !.lock_contention_retries = 0],
                        {"processed", "failed", "insufficient_funds"}))
    ELSE IF u.outcome = "reconciliation_queued"
    THEN LoopHead(Count([run EXCEPT !.lock_contention_retries = 0],
                        {"processed", "reconciliation_queued"}))
    ELSE [run EXCEPT !.lock_contention_retries = 0, !.pc = "bank", !.claim = u.claim,
                     !.attempt = 1]

ExecutorClaim(e) ==
    /\ executors[e].pc = "claim"
    /\ \E u \in ClaimStep(Store, executors[e].now) :
          /\ Commit(u.db)
          /\ Continue(e, AfterClaim(executors[e], u))
    /\ UNCHANGED <<clock, config, ensuring, units, bank, callers>>

\* a handler that stops the run on the error that reaches the maximum
OnLockContentionStopsAtMax(run) ==
    IF run.lock_contention_retries + 1 >= EXECUTOR_LOCK_CONTENTION_MAX_RETRIES
    THEN [run EXCEPT !.pc = "done"]
    ELSE [run EXCEPT !.lock_contention_retries = @ + 1]

\* a handler whose count of consecutive locking errors never passes the maximum
OnLockContentionForgets(run) ==
    IF run.lock_contention_retries + 1 > EXECUTOR_LOCK_CONTENTION_MAX_RETRIES
    THEN [run EXCEPT !.lock_contention_retries = 0]
    ELSE [run EXCEPT !.lock_contention_retries = @ + 1]

\* `except OperationalError`: the claim's unit of work met an engine-level
\* locking error and rolled back
OnLockContention(run) ==
    IF run.lock_contention_retries + 1 > EXECUTOR_LOCK_CONTENTION_MAX_RETRIES
    THEN [run EXCEPT !.pc = "done"]
    ELSE [run EXCEPT !.lock_contention_retries = @ + 1]

ExecutorLockContention(e) ==
    /\ executors[e].pc = "claim"
    /\ Continue(e, OnLockContention(executors[e]))
    /\ UNCHANGED <<clock, balance, transactions, tasks, config, ensuring, units, bank, callers, hist>>

\* the `try: bank_gateway.transfer(...) except Exception` of the loop on the
\* result of one HTTP attempt
OnTransferAttempt(run, result) ==
    IF result = NoResult THEN [run EXCEPT !.attempt = @ + 1]
    ELSE [run EXCEPT !.pc = "finalize", !.transfer_result =
             IF result.outcome = "RAISED"
             THEN TransferResult("UNKNOWN", NoKey, "gateway_exception")
             ELSE result]

\* bank_gateway.transfer(...), one HTTP attempt at a time
ExecutorTransfer(e) ==
    /\ executors[e].pc = "bank"
    /\ LET claim == executors[e].claim
           key == claim.idempotency_key
       IN  \E a \in HttpAttempts(key) :
              /\ bank' = IF Sent(a) THEN [bank EXCEPT ![key] = a.bank] ELSE bank
              /\ hist' = IF Sent(a)
                         THEN [hist EXCEPT ![claim.transaction_id].bank_keys = @ \cup {key},
                                           ![claim.transaction_id].limiter_unavailable =
                                               @ \/ a.limiter = "unavailable"]
                         ELSE hist
              /\ Continue(e, OnTransferAttempt(executors[e],
                                transfer_pass(executors[e].attempt, a, key)))
    /\ UNCHANGED <<clock, balance, transactions, tasks, config, ensuring, units, callers>>

\* counters that take a skipped finalize for a processed withdrawal
AfterFinalizeCountsSkipped(run, u) ==
    IF u.raised # None THEN Escapes(run, u.raised)
    ELSE IF u.outcome = "succeeded" THEN LoopHead(Count(run, {"succeeded", "processed"}))
    ELSE IF u.outcome = "failed" THEN LoopHead(Count(run, {"failed", "processed"}))
    ELSE IF u.outcome = "unknown"
    THEN LoopHead(Count(run, {"unknown", "reconciliation_queued", "processed"}))
    ELSE LoopHead(Count(run, {"processed"}))

\* the counters of one finalize result
AfterFinalize(run, u) ==
    IF u.raised # None THEN Escapes(run, u.raised)
    ELSE IF u.outcome = "succeeded" THEN LoopHead(Count(run, {"succeeded", "processed"}))
    ELSE IF u.outcome = "failed" THEN LoopHead(Count(run, {"failed", "processed"}))
    ELSE IF u.outcome = "unknown"
    THEN LoopHead(Count(run, {"unknown", "reconciliation_queued", "processed"}))
    ELSE LoopHead(run)

ExecutorFinalize(e) ==
    /\ executors[e].pc = "finalize"
    /\ LET u == _finalize_claimed_withdrawal(Store, executors[e].claim,
                                             executors[e].transfer_result)
       IN  /\ Commit(u.db)
           /\ Continue(e, AfterFinalize(executors[e], u))
    /\ UNCHANGED <<clock, config, ensuring, units, bank, callers>>

\* ------------------------------------- WithdrawalService.execute_withdrawal
IdleCaller ==
    [pc |-> "idle", claim |-> NoClaim, attempt |-> 0, transfer_result |-> NoResult]

\* a first block that does not look at the status of the row
ClaimsWhateverStatus(db, transaction_id) ==
    IF transaction_id \notin 1..Len(db.transactions)
    THEN {Unit(db, "raised", NoClaim, "InvalidTransactionState")}
    ELSE LET tx == db.transactions[transaction_id]
         IN  IF tx.type # "WITHDRAWAL"
                \/ (tx.execute_at # NoTime /\ tx.execute_at > clock)
             THEN {Unit(db, "raised", NoClaim, "InvalidTransactionState")}
             ELSE IF ~ConditionalDebitApplies(db.balance[tx.wallet], tx.amount)
             THEN {Unit(SaveStatus(db, transaction_id, "FAILED", "insufficient_balance"),
                        "returned", NoClaim, None)}
             ELSE {IF key = NoKey
                   THEN Unit(db, "raised", NoClaim, "RuntimeError")
                   ELSE LET done == SaveStatus(SetKey(Debit(db, transaction_id),
                                                      transaction_id, key),
                                               transaction_id, "PROCESSING", None)
                        IN  Unit(done, "claimed", ClaimedWithdrawal(done, transaction_id),
                                 None)
                   : key \in ensure_transaction_idempotency_key(db, transaction_id)}

\* the first `with transaction.atomic()` block
execute_withdrawal_claim(db, transaction_id) ==
    IF transaction_id \notin 1..Len(db.transactions)
    THEN {Unit(db, "raised", NoClaim, "InvalidTransactionState")}
    ELSE LET tx == db.transactions[transaction_id]
         IN  IF tx.type # "WITHDRAWAL" \/ tx.status # "SCHEDULED"
                \/ (tx.execute_at # NoTime /\ tx.execute_at > clock)
             THEN {Unit(db, "raised", NoClaim, "InvalidTransactionState")}
             ELSE IF ~ConditionalDebitApplies(db.balance[tx.wallet], tx.amount)
             THEN {Unit(SaveStatus(db, transaction_id, "FAILED", "insufficient_balance"),
                        "returned", NoClaim, None)}
             ELSE {IF key = NoKey
                   THEN Unit(db, "raised", NoClaim, "RuntimeError")
                   ELSE LET done == SaveStatus(SetKey(Debit(db, transaction_id),
                                                      transaction_id, key),
                                               transaction_id, "PROCESSING", None)
                        IN  Unit(done, "claimed", ClaimedWithdrawal(done, transaction_id),
                                 None)
                   : key \in ensure_transaction_idempotency_key(db, transaction_id)}

\* the second `with transaction.atomic()` block
execute_withdrawal_finalize(db, transaction_id, transfer_result) ==
    IF db.transactions[transaction_id].status # "PROCESSING"
    THEN Unit(db, "raised", NoClaim, "InvalidTransactionState")
    ELSE IF transfer_result.outcome = "SUCCESS"
    THEN Unit([SaveStatus(db, transaction_id, "SUCCEEDED", None)
                  EXCEPT !.transactions[transaction_id].external_reference =
                             transfer_result.reference,
                         !.transactions[transaction_id].bank_reference =
                             transfer_result.reference],
              "returned", NoClaim, None)
    ELSE Unit(SaveStatus(Refund(db, transaction_id, transfer_result.outcome),
                         transaction_id, "FAILED",
                         IF transfer_result.error_reason # None
                         THEN transfer_result.error_reason ELSE "bank_transfer_failed"),
              "returned", NoClaim, None)

CallerStart(s, transaction_id) ==
    /\ callers[s].pc = "idle"
    /\ \E u \in execute_withdrawal_claim(Store, transaction_id) :
          /\ Commit(u.db)
          /\ IF u.outcome = "claimed"
             THEN /\ callers' = [callers EXCEPT ![s] =
                        [IdleCaller EXCEPT !.pc = "bank", !.claim = u.claim, !.attempt = 1]]
                  /\ NoReturn
             ELSE /\ UNCHANGED callers
                  /\ Return("execute_withdrawal", 0, u.raised)
    /\ UNCHANGED <<clock, config, ensuring, units, bank, executors>>

\* bank_gateway.transfer(...) and the `except Exception` around it, whose
\* handler calls TransferResult(success=False, ...): the dataclass has no such
\* field, so the handler itself raises TypeError and the call ends there.
CallerHttpAttempt(s, a) ==
    /\ callers[s].pc = "bank"
    /\ LET claim == callers[s].claim
           key == claim.idempotency_key
           result == transfer_pass(callers[s].attempt, a, key)
       IN  /\ bank' = IF Sent(a) THEN [bank EXCEPT ![key] = a.bank] ELSE bank
           /\ hist' = IF Sent(a)
                      THEN [hist EXCEPT ![claim.transaction_id].bank_keys = @ \cup {key},
                                           ![claim.transaction_id].limiter_unavailable =
                                               @ \/ a.limiter = "unavailable"]
                      ELSE hist
           /\ IF result = NoResult
              THEN /\ callers' = [callers EXCEPT ![s].attempt = @ + 1]
                   /\ NoReturn
              ELSE IF result.outcome = "RAISED"
              THEN /\ callers' = [callers EXCEPT ![s] = IdleCaller]
                   /\ Return("execute_withdrawal", 0, "TypeError")
              ELSE /\ callers' = [callers EXCEPT ![s].pc = "finalize",
                                                 ![s].transfer_result = result]
                   /\ NoReturn
    /\ UNCHANGED <<clock, balance, transactions, tasks, config, ensuring, units, executors>>

\* one HTTP attempt of the call, on whatever the attempt meets
CallerTransfer(s) ==
    /\ callers[s].pc = "bank"
    /\ \E a \in HttpAttempts(callers[s].claim.idempotency_key) : CallerHttpAttempt(s, a)

CallerFinalize(s) ==
    /\ callers[s].pc = "finalize"
    /\ LET u == execute_withdrawal_finalize(Store, callers[s].claim.transaction_id,
                                            callers[s].transfer_result)
       IN  /\ Commit(u.db)
           /\ callers' = [callers EXCEPT ![s] = IdleCaller]
           /\ Return("execute_withdrawal",
                     IF u.raised = None THEN callers[s].claim.transaction_id ELSE 0,
                     u.raised)
    /\ UNCHANGED <<clock, config, ensuring, units, bank, executors>>

\* -------------------------------------------------- the reconciler worker
ZeroReconcileSummary ==
    [stale_marked_unknown |-> 0, resolved_success |-> 0, resolved_failure |-> 0,
     pending |-> 0, resolved |-> 0]

\* BankGateway.query_transfer_status: the results a status query for key k can
\* give (it executes nothing at the bank)
StatusResults(k) ==
    {TransferResult("UNKNOWN", NoKey, "status_query_network_error"),
     TransferResult("UNKNOWN", NoKey, "status_query_rate_limited")}
    \cup {_normalize_response(r, k) :
            r \in (BrokenResponses \ {Response(200, "array", NoTime, None, None, NoKey)})
                  \cup {HonestResponse(k, IF bank[k] = "executed" THEN "executed"
                                          ELSE "rejected")}}

ResolveTask(db, i, reason) ==
    [db EXCEPT !.tasks[i].status = "RESOLVED", !.tasks[i].reason = reason]

\* a resolution that closes a PENDING task without looking at its withdrawal
ResolveWithoutLooking(db, i, status_result) ==
    IF db.tasks[i].status # "PENDING" THEN Unit(db, "skipped", NoClaim, None)
    ELSE Unit(ResolveTask(db, i, "ALREADY_SUCCEEDED"), "resolved", NoClaim, None)

\* _resolve_unknown_task, given the result its status query gets. The query is
\* made inside the `with transaction.atomic()` block, with the task, the row
\* and the wallet locked: `queried` is the store from there on.
_resolve_unknown_task(db, i, status_result) ==
    LET tx == db.tasks[i].transaction
        status == db.transactions[tx].status
        queried == [db EXCEPT !.hist[tx].queried_in_unit = TRUE]
    IN  IF db.tasks[i].status # "PENDING" THEN Unit(db, "skipped", NoClaim, None)
        ELSE IF status = "SUCCEEDED"
        THEN Unit(ResolveTask(db, i, "ALREADY_SUCCEEDED"), "resolved", NoClaim, None)
        ELSE IF status = "FAILED"
        THEN Unit(ResolveTask(db, i, "ALREADY_FAILED"), "resolved", NoClaim, None)
        ELSE IF "UNKNOWN" \notin Status
        THEN Unit(db, "raised", NoClaim, "AttributeError")
        ELSE IF status \notin {"UNKNOWN", "PROCESSING"}
        THEN Unit(db, "skipped", NoClaim, None)
        ELSE IF ~config.can_query_status THEN Unit(db, "pending", NoClaim, None)
        ELSE IF status_result.outcome = "SUCCESS"
        THEN Unit(ResolveTask(
                    [SaveStatus(queried, tx, "SUCCEEDED", None)
                        EXCEPT !.transactions[tx].external_reference = status_result.reference,
                               !.transactions[tx].bank_reference = status_result.reference],
                    i, "RECONCILED_SUCCESS"),
                  "resolved_success", NoClaim, None)
        ELSE IF status_result.outcome = "FINAL_FAILURE"
        THEN Unit(ResolveTask(
                    SaveStatus(Refund(queried, tx, status_result.outcome), tx, "FAILED",
                               IF status_result.error_reason # None
                               THEN status_result.error_reason
                               ELSE "RECONCILED_FINAL_FAILURE"),
                    i, "RECONCILED_FINAL_FAILURE"),
                  "resolved_failure", NoClaim, None)
        ELSE Unit(queried, "pending", NoClaim, None)

\* _mark_stale_processing_unknown: the store after the loop, and how many rows
\* it marked (outcome), or the exception that ended it
RECURSIVE _mark_stale_processing_unknown(_, _, _, _)
_mark_stale_processing_unknown(db, now, limit, processed) ==
    LET tx == FirstBy(db, StaleProcessing(db, now, WITHDRAWAL_PROCESSING_TIMEOUT_SECONDS),
                      "updated_at")
        u == _mark_unknown_and_queue_reconciliation(db, tx,
                 "PROCESSING_TIMEOUT_RECONCILIATION_REQUIRED")
    IN  IF processed >= limit \/ tx = 0 THEN Unit(db, processed, NoClaim, None)
        ELSE IF u.raised # None THEN u
        ELSE _mark_stale_processing_unknown(u.db, now, limit, processed + 1)

\* the PENDING tasks ordered by (created_at, id), the first `limit` of them
RECURSIVE PendingTasks(_, _, _)
PendingTasks(db, from, limit) ==
    IF from > Len(db.tasks) \/ limit = 0 THEN <<>>
    ELSE IF db.tasks[from].status = "PENDING"
    THEN <<from>> \o PendingTasks(db, from + 1, limit - 1)
    ELSE PendingTasks(db, from + 1, limit)

\* `for task in pending_tasks`: the store and summary after the loop
RECURSIVE ResolveAll(_, _, _, _)
ResolveAll(db, ids, results, summary) ==
    IF ids = <<>> THEN [db |-> db, summary |-> summary, raised |-> None]
    ELSE LET u == _resolve_unknown_task(db, Head(ids), results[Head(ids)])
         IN  IF u.raised # None
             THEN [db |-> u.db, summary |-> summary, raised |-> u.raised]
             ELSE ResolveAll(u.db, Tail(ids), results,
                     IF u.outcome \in {"resolved_success", "resolved_failure",
                                       "resolved", "pending"}
                     THEN [summary EXCEPT ![u.outcome] = @ + 1] ELSE summary)

\* reconcile_withdrawals
reconcile_withdrawals(limit) ==
    /\ IF limit <= 0
       THEN /\ Return("reconcile_withdrawals", ZeroReconcileSummary, None)
            /\ UNCHANGED <<balance, transactions, tasks, hist>>
       ELSE LET swept == _mark_stale_processing_unknown(Store, clock, limit, 0)
                ids == PendingTasks(swept.db, 1, limit)
                idset == {ids[j] : j \in 1..Len(ids)}
            IN  IF swept.raised # None
                THEN /\ Return("reconcile_withdrawals", ZeroReconcileSummary,
                               swept.raised)
                     /\ UNCHANGED <<balance, transactions, tasks, hist>>
                ELSE \E results \in [idset -> UNION {StatusResults(k) : k \in DOMAIN bank}] :
                        /\ \A i \in idset : results[i] \in StatusResults(
                              swept.db.transactions[swept.db.tasks[i].transaction].idempotency_key)
                        /\ LET done == ResolveAll(swept.db, ids, results,
                                  [ZeroReconcileSummary EXCEPT
                                      !.stale_marked_unknown = swept.outcome])
                           IN  /\ Commit(done.db)
                               /\ Return("reconcile_withdrawals", done.summary,
                                         done.raised)
    /\ UNCHANGED <<clock, config, ensuring, units, bank, executors, callers>>

\* --------------------------------------------------------- specification
Keys == 1..MaxTx

\* a withdrawal scheduled before the clock started and due from the start
ScheduledBefore ==
    [wallet |-> 1, type |-> "WITHDRAWAL", status |-> "SCHEDULED", amount |-> 1,
     execute_at |-> 0, idempotency_key |-> 1,
     external_reference |-> NoKey, bank_reference |-> NoKey,
     failure_reason |-> None, updated_at |-> 0]

Init ==
    /\ clock = 0
    /\ balance = [w \in Wallets |-> InitialBalance]
    /\ transactions = <<ScheduledBefore>>
    /\ tasks = <<>>
    /\ config \in [bank_honors_idempotency : BOOLEAN, bank_always_succeeds : {FALSE},
                   can_query_status : {TRUE}, bank_max_rps : {0}]
    /\ bank = [k \in Keys |-> "none"]
    /\ executors = [e \in Executors |-> IdleExecutor]
    /\ callers = [s \in Callers |-> IdleCaller]
    /\ returned = [call |-> "None", value |-> 0, raised |-> None]
    /\ units = NoUnits
    /\ ensuring = NoEnsure
    /\ hist = <<NewHist>>

Next ==
    \/ Tick
    \/ \E w \in Wallets, amount \in 0..MaxAmount, key \in {NoKey} \cup Keys :
          Len(transactions) < MaxTx /\ deposit(w, amount, key)
    \/ \E w \in Wallets, amount \in 0..MaxAmount, execute_at \in 0..MaxTime,
          key \in {NoKey} \cup Keys :
          Len(transactions) < MaxTx /\ schedule_withdrawal(w, amount, execute_at, key)
    \/ \E e \in Executors, limit \in 0..MaxLimit : ExecutorStart(e, limit)
    \/ \E e \in Executors : ExecutorClaim(e)
    \/ \E e \in Executors : ExecutorLockContention(e)
    \/ \E e \in Executors : ExecutorTransfer(e)
    \/ \E e \in Executors : ExecutorFinalize(e)
    \/ \E s \in Callers, transaction_id \in 0..MaxTx : CallerStart(s, transaction_id)
    \/ \E s \in Callers : CallerTransfer(s)
    \/ \E s \in Callers : CallerFinalize(s)
    \/ \E limit \in 0..MaxLimit : reconcile_withdrawals(limit)

Spec == Init /\ [][Next]_vars

\* ------------------------- test_concurrent_runs_do_not_make_balance_negative
TestWalletBalance == 100
TestWithdrawalAmount == 80

\* _schedule_due_withdrawal: a SCHEDULED withdrawal that is due already
DueWithdrawal(w, amount, key) ==
    [wallet |-> w, type |-> "WITHDRAWAL", status |-> "SCHEDULED", amount |-> amount,
     execute_at |-> 0, idempotency_key |-> key,
     external_reference |-> NoKey, bank_reference |-> NoKey,
     failure_reason |-> None, updated_at |-> 0]

\* one wallet, two due withdrawals, two executor workers, a bank that executes
\* and confirms every transfer
InitTwoDue ==
    /\ clock = 0
    /\ balance = [w \in Wallets |-> TestWalletBalance]
    /\ transactions = <<DueWithdrawal(1, TestWithdrawalAmount, 1),
                        DueWithdrawal(1, TestWithdrawalAmount, 2)>>
    /\ tasks = <<>>
    /\ config \in [bank_honors_idempotency : BOOLEAN, bank_always_succeeds : {TRUE},
                   can_query_status : {TRUE}, bank_max_rps : {0}]
    /\ bank = [k \in Keys |-> "none"]
    /\ executors = [e \in Executors |-> IdleExecutor]
    /\ callers = [s \in Callers |-> IdleCaller]
    /\ returned = [call |-> "None", value |-> 0, raised |-> None]
    /\ units = NoUnits
    /\ ensuring = NoEnsure
    /\ hist = <<NewHist, NewHist>>

NextTwoDue ==
    \/ Tick
    \/ \E e \in Executors, limit \in 0..MaxLimit : ExecutorStart(e, limit)
    \/ \E e \in Executors : ExecutorClaim(e)
    \/ \E e \in Executors : ExecutorLockContention(e)
    \/ \E e \in Executors : ExecutorTransfer(e)
    \/ \E e \in Executors : ExecutorFinalize(e)

SpecTwoDue == InitTwoDue /\ [][NextTwoDue]_vars

\* ------------------------------------------------------------ properties
RECURSIVE SumAmount(_)
SumAmount(S) ==
    IF S = {} THEN 0
    ELSE LET t == CHOOSE x \in S : TRUE
         IN  transactions[t].amount + SumAmount(S \ {t})

RowsOf(w, type, statuses) ==
    {t \in TxIds : /\ transactions[t].wallet = w
                   /\ transactions[t].type = type
                   /\ transactions[t].status \in statuses}

\* the workers that hold a claim on withdrawal t and have not finalized it yet
ExecutorsHolding(t) ==
    {e \in Executors : executors[e].pc \in {"bank", "finalize"}
                       /\ executors[e].claim.transaction_id = t}

CallersHolding(t) ==
    {s \in Callers : callers[s].pc \in {"bank", "finalize"}
                     /\ callers[s].claim.transaction_id = t}

\* C1: in every committed state every wallet's balance is >= 0.
BalanceNeverNegative == \A w \in Wallets : balance[w] >= 0

\* C1 witness: the conditional debit refused a withdrawal of a wallet another
\* withdrawal had emptied.
BalanceNeverNegativeWitness ==
    \E t, u \in Withdrawals :
        /\ transactions[t].failure_reason = "INSUFFICIENT_FUNDS"
        /\ hist[u].debits = 1 /\ hist[u].refunds = 0
        /\ balance[transactions[t].wallet] = 0

\* C2: ledger conservation: for each wallet, balance plus the amounts of its
\* PROCESSING or UNKNOWN withdrawals equals the initial balance plus its
\* successful deposits minus its SUCCEEDED withdrawals.
LedgerConservation ==
    \A w \in Wallets :
        balance[w] + SumAmount(RowsOf(w, "WITHDRAWAL", {"PROCESSING", "UNKNOWN"}))
            = InitialBalance + SumAmount(RowsOf(w, "DEPOSIT", {"SUCCEEDED"}))
                - SumAmount(RowsOf(w, "WITHDRAWAL", {"SUCCEEDED"}))

\* C2 witness: a deposit was credited, one withdrawal was debited and refunded.
LedgerConservationWitness ==
    \E w \in Wallets :
        /\ RowsOf(w, "DEPOSIT", {"SUCCEEDED"}) # {}
        /\ \E t \in RowsOf(w, "WITHDRAWAL", {"FAILED"}) : hist[t].refunds = 1

\* C3: given a bank that deduplicates by idempotency key, the wallet is never
\* refunded for a transfer that the bank has executed or executes later.
NoRefundOfExecutedTransfer ==
    \A t \in Withdrawals :
        hist[t].refunds > 0 => bank[transactions[t].idempotency_key] # "executed"

\* C4: a withdrawal is debited at most once, and refunded at most once and only
\* if it was debited.
NoDoubleDebitOrRefund ==
    \A t \in Withdrawals : hist[t].debits <= 1 /\ hist[t].refunds <= hist[t].debits

\* C4 witness: a withdrawal was debited once and refunded once while another
\* worker still holds a claim on it and is about to finalize.
NoDoubleDebitOrRefundWitness ==
    \E t \in Withdrawals :
        /\ hist[t].debits = 1 /\ hist[t].refunds = 1
        /\ \E e \in ExecutorsHolding(t) : executors[e].pc = "finalize"

\* C5: SUCCEEDED and FAILED are terminal: no step changes the status of a
\* withdrawal that is SUCCEEDED or FAILED (so SUCCEEDED is entered at most once).
TerminalStatusesStay ==
    [][\A t \in TxIds :
          transactions[t].status \in {"SUCCEEDED", "FAILED"}
              => transactions'[t].status = transactions[t].status]_vars

\* C5 witness: a withdrawal is SUCCEEDED or FAILED while a worker still holds
\* a claim on it with a bank result to finalize.
TerminalStatusesStayWitness ==
    \E t \in Withdrawals :
        /\ transactions[t].status \in {"SUCCEEDED", "FAILED"}
        /\ \/ \E e \in ExecutorsHolding(t) : executors[e].pc = "finalize"
           \/ \E s \in CallersHolding(t) : callers[s].pc = "finalize"

\* the status lattice of C6
Lattice ==
    {<<"SCHEDULED", "PROCESSING">>, <<"SCHEDULED", "FAILED">>,
     <<"PROCESSING", "SUCCEEDED">>, <<"PROCESSING", "FAILED">>,
     <<"PROCESSING", "UNKNOWN">>, <<"UNKNOWN", "SUCCEEDED">>, <<"UNKNOWN", "FAILED">>}

\* the step is executor e finalizing an UNKNOWN bank outcome for a withdrawal
\* that is still PROCESSING
FinalizesUnknown(e) ==
    /\ executors[e].pc = "finalize"
    /\ executors[e].transfer_result.outcome = "UNKNOWN"
    /\ transactions[executors[e].claim.transaction_id].status = "PROCESSING"
    /\ executors'[e] # executors[e]

\* C6: every status change follows the lattice, and UNKNOWN is a status of the
\* transaction: a PROCESSING withdrawal finalized with an UNKNOWN bank outcome
\* becomes UNKNOWN.
StatusLattice ==
    [][/\ \A t \in TxIds :
             transactions'[t].status # transactions[t].status
                 => <<transactions[t].status, transactions'[t].status>> \in Lattice
       /\ \A e \in Executors :
             FinalizesUnknown(e)
                 => transactions'[executors[e].claim.transaction_id].status = "UNKNOWN"]_vars

RefundOnlyOnFinalFailure ==
    \A t \in Withdrawals : hist[t].refunds > 0 => hist[t].refund_outcome = "FINAL_FAILURE"

\* C9: a withdrawal that is or has been PROCESSING has a non-null idempotency
\* key, the one it had when it became PROCESSING, and every bank call made for
\* it carried that key.
IdempotencyKeyStable ==
    \A t \in Withdrawals :
        hist[t].ever_processing
            => /\ transactions[t].idempotency_key # NoKey
               /\ transactions[t].idempotency_key = hist[t].first_key
               /\ hist[t].bank_keys \subseteq {transactions[t].idempotency_key}
               /\ \A e \in ExecutorsHolding(t) :
                      executors[e].claim.idempotency_key = hist[t].first_key
               /\ \A s \in CallersHolding(t) :
                      callers[s].claim.idempotency_key = hist[t].first_key

\* C9 witness: a stale PROCESSING withdrawal was reclaimed: two workers hold a
\* claim on it, and the bank has been called for it.
IdempotencyKeyStableWitness ==
    \E t \in Withdrawals :
        /\ Cardinality(ExecutorsHolding(t)) + Cardinality(CallersHolding(t)) >= 2
        /\ hist[t].bank_keys # {}
        /\ \E e \in ExecutorsHolding(t) : executors[e].pc = "finalize"

\* C10: one wallet of 100, two due withdrawals of 80, two executor workers, a
\* bank that always succeeds: the balance is never below 0, at most one
\* withdrawal is SUCCEEDED, and once both have ended exactly one is SUCCEEDED,
\* the other is FAILED with INSUFFICIENT_FUNDS and the balance is 20.
OneOfTwoSucceeds ==
    /\ \A w \in Wallets : balance[w] >= 0
    /\ Cardinality(RowsOf(1, "WITHDRAWAL", {"SUCCEEDED"})) <= 1
    /\ (\A t \in Withdrawals : transactions[t].status \in {"SUCCEEDED", "FAILED"})
          => /\ Cardinality(RowsOf(1, "WITHDRAWAL", {"SUCCEEDED"})) = 1
             /\ \A t \in RowsOf(1, "WITHDRAWAL", {"FAILED"}) :
                    transactions[t].failure_reason = "INSUFFICIENT_FUNDS"
             /\ balance[1] = TestWalletBalance - TestWithdrawalAmount

\* C10 witness: both withdrawals have ended, one of them refused for
\* insufficient funds while the other was still PROCESSING at the bank.
OneOfTwoSucceedsWitness ==
    /\ Len(transactions) = 2
    /\ \A t \in Withdrawals : transactions[t].status \in {"SUCCEEDED", "FAILED"}
    /\ \E t \in Withdrawals : transactions[t].status = "SUCCEEDED" /\ hist[t].debits = 1
    /\ \E t \in Withdrawals : transactions[t].failure_reason = "INSUFFICIENT_FUNDS"
    /\ balance[1] = TestWalletBalance - TestWithdrawalAmount

\* the step is executor e finalizing a claim whose withdrawal is not PROCESSING
\* any more
FinalizesFinished(e) ==
    /\ executors[e].pc = "finalize"
    /\ transactions[executors[e].claim.transaction_id].status # "PROCESSING"
    /\ executors'[e] # executors[e]

\* C11: finalizing a claim whose withdrawal is no longer PROCESSING changes
\* nothing, whatever the bank outcome: rows, balances and reconciliation tasks
\* stay as they are, no exception is raised and no counter of the run moves.
SkippedFinalizeIsNoOp ==
    [][\A e \in Executors :
          FinalizesFinished(e)
              => /\ transactions' = transactions
                 /\ balance' = balance
                 /\ tasks' = tasks
                 /\ IF executors'[e].pc = "idle"
                    THEN /\ returned'.call = "execute_due_withdrawals"
                         /\ returned'.raised = None
                         /\ returned'.value = executors[e].summary
                    ELSE executors'[e].summary = executors[e].summary]_vars

\* C11 witness: a worker is about to finalize a FINAL_FAILURE for a withdrawal
\* that another worker has already made SUCCEEDED, and one is about to finalize
\* a SUCCESS for a withdrawal already FAILED and refunded.
SkippedFinalizeIsNoOpWitness ==
    \E t \in Withdrawals : \E e \in ExecutorsHolding(t) :
        /\ executors[e].pc = "finalize"
        /\ \/ /\ executors[e].transfer_result.outcome = "SUCCESS"
              /\ transactions[t].status = "FAILED"
              /\ hist[t].refunds = 1
           \/ /\ executors[e].transfer_result.outcome = "FINAL_FAILURE"
              /\ transactions[t].status = "SUCCEEDED"

\* the step is executor e reclaiming the stale PROCESSING withdrawal t
Reclaims(e, t) ==
    /\ executors[e].pc = "claim"
    /\ executors'[e].pc = "bank"
    /\ executors'[e].claim.transaction_id = t
    /\ transactions[t].status = "PROCESSING"

\* the step is executor e finalizing bank outcome o for the withdrawal t it
\* holds, which is still PROCESSING
Finalizes(e, t, o) ==
    /\ executors[e].pc = "finalize"
    /\ executors[e].claim.transaction_id = t
    /\ executors[e].transfer_result.outcome = o
    /\ transactions[t].status = "PROCESSING"
    /\ executors'[e] # executors[e]

\* C12: with bank_honors_idempotency = true, reclaiming a stale PROCESSING
\* withdrawal keeps it PROCESSING with the key it has and debits nothing, and the
\* worker goes on to call the bank with that key; when the result of the call
\* is finalized, SUCCESS leaves the wallet with the single debit of the first
\* claim, and FINAL_FAILURE credits the amount back, once.
StaleReclaimRetriesWithoutDebit ==
    [][\A e \in Executors, t \in TxIds :
          /\ (config.bank_honors_idempotency /\ Reclaims(e, t))
                => /\ transactions'[t].status = "PROCESSING"
                   /\ transactions'[t].idempotency_key = transactions[t].idempotency_key
                   /\ executors'[e].claim.idempotency_key = transactions[t].idempotency_key
                   /\ executors'[e].attempt = 1
                   /\ balance' = balance
                   /\ hist'[t].debits = hist[t].debits
          /\ (config.bank_honors_idempotency /\ Finalizes(e, t, "SUCCESS"))
                => /\ transactions'[t].status = "SUCCEEDED"
                   /\ balance' = balance
                   /\ hist'[t].debits = 1 /\ hist'[t].refunds = 0
          /\ (config.bank_honors_idempotency /\ Finalizes(e, t, "FINAL_FAILURE"))
                => /\ transactions'[t].status = "FAILED"
                   /\ balance' = [balance EXCEPT ![transactions[t].wallet] =
                                                     @ + transactions[t].amount]
                   /\ hist'[t].debits = 1 /\ hist'[t].refunds = 1]_vars

\* C12 witness: the bank has been called for a withdrawal whose worker is gone;
\* another executor has reclaimed it, is its only holder and is about to make
\* its first call to the bank, and the wallet still shows the one debit.
StaleReclaimRetriesWithoutDebitWitness ==
    \E t \in Withdrawals :
        /\ config.bank_honors_idempotency
        /\ transactions[t].status = "PROCESSING"
        /\ hist[t].bank_keys # {} /\ hist[t].debits = 1 /\ hist[t].refunds = 0
        /\ CallersHolding(t) = {}
        /\ \E e \in Executors :
              /\ ExecutorsHolding(t) = {e}
              /\ executors[e].pc = "bank" /\ executors[e].attempt = 1

\* the step is the claim of executor e meeting a locking error: one more retry,
\* or the run ends with the summary it has
MeetsLockContention(e) ==
    /\ executors[e].pc = "claim"
    /\ \/ /\ executors'[e].pc = "claim"
          /\ executors'[e].lock_contention_retries =
                 executors[e].lock_contention_retries + 1
       \/ /\ executors[e].lock_contention_retries + 1 > EXECUTOR_LOCK_CONTENTION_MAX_RETRIES
          /\ executors'[e].pc = "idle"
          /\ returned'.raised = None
          /\ returned'.value = executors[e].summary

\* the step is executor e running the claim step of an iteration
RunsClaimStep(e) ==
    /\ executors[e].pc = "claim"
    /\ executors'[e] # executors[e]
    /\ ~MeetsLockContention(e)

\* the summary of the run of executor e after the step: the one it goes on
\* with, or the one it returns
SummaryAfter(e) ==
    IF executors'[e].pc = "idle" THEN returned'.value ELSE executors'[e].summary

\* the step is executor e running the claim step of an iteration at a moment
\* when no SCHEDULED withdrawal is due, the bank is configured as not honoring
\* idempotency keys and t is the first stale PROCESSING withdrawal
HandlesStaleWithoutIdempotency(e, t) ==
    /\ RunsClaimStep(e)
    /\ ~config.bank_honors_idempotency
    /\ DueWithdrawals(Store, executors[e].now) = {}
    /\ t = FirstBy(Store, StaleProcessing(Store, executors[e].now,
                                          WITHDRAWAL_PROCESSING_STALE_SECONDS),
                   "updated_at")

\* C13: with bank_honors_idempotency = false the executor does not call the
\* bank for a stale PROCESSING withdrawal: the step makes the row UNKNOWN,
\* leaves the balance as it is, and leaves the withdrawal with a PENDING
\* reconciliation task of reason STALE_PROCESSING_WITHOUT_BANK_IDEMPOTENCY.
StaleWithoutIdempotencyQueued ==
    [][\A e \in Executors, t \in TxIds :
          HandlesStaleWithoutIdempotency(e, t)
              => /\ executors'[e].pc # "bank"
                 /\ balance' = balance
                 /\ transactions'[t].status = "UNKNOWN"
                 /\ \E i \in 1..Len(tasks') :
                        /\ tasks'[i].transaction = t
                        /\ tasks'[i].status = "PENDING"
                        /\ tasks'[i].reason = "STALE_PROCESSING_WITHOUT_BANK_IDEMPOTENCY"]_vars

\* ------------------------------------------------------------ crash recovery
\* The periodic workers over the one withdrawal of Init. Executor e1 may stop
\* anywhere (nothing obliges it to take its next step); executor e2 and the
\* reconciler are started again and again and run every step they can take,
\* and time goes on.
Running == {"e2"}

NextCrash ==
    \/ Tick
    \/ \E e \in Executors, limit \in 0..MaxLimit : ExecutorStart(e, limit)
    \/ \E e \in Executors : ExecutorClaim(e)
    \/ \E e \in Executors : ExecutorLockContention(e)
    \/ \E e \in Executors : ExecutorTransfer(e)
    \/ \E e \in Executors : ExecutorFinalize(e)
    \/ \E limit \in 0..MaxLimit : reconcile_withdrawals(limit)

FairCrash ==
    /\ WF_vars(Tick)
    /\ WF_vars(reconcile_withdrawals(MaxLimit))
    /\ \A e \in Running :
          /\ WF_vars(ExecutorStart(e, MaxLimit))
          /\ SF_vars(ExecutorClaim(e))
          /\ WF_vars(ExecutorTransfer(e))
          /\ WF_vars(ExecutorFinalize(e))

SpecCrash == Init /\ [][NextCrash]_vars /\ FairCrash

\* withdrawal t has been PROCESSING for the stale window or longer
StaleNow(t) ==
    /\ t \in TxIds
    /\ transactions[t].type = "WITHDRAWAL"
    /\ transactions[t].status = "PROCESSING"
    /\ transactions[t].updated_at <= clock - WITHDRAWAL_PROCESSING_STALE_SECONDS
    /\ transactions[t].updated_at <= clock - WITHDRAWAL_PROCESSING_TIMEOUT_SECONDS

\* withdrawal t is finalized, or UNKNOWN with a reconciliation task
Recovered(t) ==
    /\ t \in TxIds
    /\ \/ transactions[t].status \in {"SUCCEEDED", "FAILED"}
       \/ /\ transactions[t].status = "UNKNOWN"
          /\ \E i \in 1..Len(tasks) : tasks[i].transaction = t

\* C14: crash recovery: a withdrawal whose worker stopped between claim and
\* finalize does not stay PROCESSING forever: once the stale window has
\* passed, and with an executor and the reconciler that keep running, it is
\* eventually finalized (SUCCEEDED or FAILED) or UNKNOWN with a reconciliation
\* task.
CrashRecovery == \A t \in 1..MaxTx : StaleNow(t) ~> Recovered(t)

NoExceptionEscapes ==
    returned.call \in {"execute_due_withdrawals", "reconcile_withdrawals"}
        => returned.raised = None

\* the step is executor e claiming the first due withdrawal t while the wallet
\* holds less than its amount (the conditional debit updates no row)
ClaimsWithoutFunds(e, t) ==
    /\ RunsClaimStep(e)
    /\ t = FirstBy(Store, DueWithdrawals(Store, executors[e].now), "execute_at")
    /\ ~ConditionalDebitApplies(balance[transactions[t].wallet], transactions[t].amount)

\* C17: when the conditional debit of the claim updates no row, the withdrawal
\* goes from SCHEDULED to FAILED with failure_reason INSUFFICIENT_FUNDS, the
\* balance is unchanged, the bank is not called for it, and the run counts it
\* as processed, failed and insufficient_funds.
InsufficientFundsFails ==
    [][\A e \in Executors, t \in TxIds :
          ClaimsWithoutFunds(e, t)
              => /\ transactions'[t].status = "FAILED"
                 /\ transactions'[t].failure_reason = "INSUFFICIENT_FUNDS"
                 /\ balance' = balance
                 /\ bank' = bank
                 /\ hist'[t] = hist[t]
                 /\ executors'[e].pc # "bank"
                 /\ executors'[e].pc = "idle" => returned'.raised = None
                 /\ SummaryAfter(e) =
                       [executors[e].summary EXCEPT !.processed = @ + 1,
                                                    !.failed = @ + 1,
                                                    !.insufficient_funds = @ + 1]]_vars

\* C17 witness: a run has just returned a summary that counts one withdrawal
\* as insufficient_funds, and that withdrawal is FAILED with INSUFFICIENT_FUNDS,
\* was never debited and never sent to the bank.
InsufficientFundsFailsWitness ==
    /\ returned.call = "execute_due_withdrawals"
    /\ returned.raised = None
    /\ returned.value.insufficient_funds = 1
    /\ returned.value.processed = 1 /\ returned.value.failed = 1
    /\ \E t \in Withdrawals :
          /\ transactions[t].status = "FAILED"
          /\ transactions[t].failure_reason = "INSUFFICIENT_FUNDS"
          /\ hist[t].debits = 0 /\ hist[t].bank_keys = {}

\* ---------------------------------------- a table with a task to reconcile
\* test_unknown_stays_pending_when_status_endpoint_is_missing and the two
\* tests after it: a withdrawal that was claimed and debited, whose status
\* column holds the value UNKNOWN, with a PENDING reconciliation task; beside it
\* a due SCHEDULED withdrawal for the executors
UnknownWithdrawal ==
    [DueWithdrawal(1, 1, 1) EXCEPT !.status = "UNKNOWN",
                                   !.failure_reason = "RECONCILIATION_REQUIRED"]

InitPendingTask ==
    /\ clock = 0
    /\ balance = [w \in Wallets |-> InitialBalance]
    /\ transactions = <<UnknownWithdrawal, DueWithdrawal(1, 1, 2)>>
    /\ tasks = <<[transaction |-> 1, reason |-> "UNKNOWN_TRANSFER_OUTCOME",
                  status |-> "PENDING", created_at |-> 0]>>
    /\ config \in [bank_honors_idempotency : BOOLEAN, bank_always_succeeds : {FALSE},
                   can_query_status : BOOLEAN, bank_max_rps : {0}]
    /\ bank \in {[k \in Keys |-> IF k = 1 THEN b ELSE "none"] :
                    b \in {"none", "executed", "rejected"}}
    /\ executors = [e \in Executors |-> IdleExecutor]
    /\ callers = [s \in Callers |-> IdleCaller]
    /\ returned = [call |-> "None", value |-> 0, raised |-> None]
    /\ units = NoUnits
    /\ ensuring = NoEnsure
    /\ hist = <<[NewHist EXCEPT !.debits = 1, !.ever_processing = TRUE,
                                !.first_key = 1, !.bank_keys = {1}],
                NewHist>>

SpecPendingTask == InitPendingTask /\ [][NextCrash]_vars

\* the step is a run of reconcile_withdrawals (one that returns more than the
\* zero summary of a run that had nothing to do)
ReconcilerRuns ==
    /\ returned'.call = "reconcile_withdrawals"
    /\ ~(/\ returned'.raised = None
         /\ returned'.value = ZeroReconcileSummary
         /\ UNCHANGED <<balance, transactions, tasks>>)

\* task i is PENDING and its withdrawal is UNKNOWN
PendingUnknown(i) ==
    /\ tasks[i].status = "PENDING"
    /\ transactions[tasks[i].transaction].status = "UNKNOWN"

\* C18: a run of the reconciler over a PENDING task whose withdrawal is
\* UNKNOWN, with a status endpoint: if the bank reports the transfer executed
\* (SUCCESS) the withdrawal becomes SUCCEEDED with the returned reference, the
\* balance is unchanged and the task is RESOLVED with reason RECONCILED_SUCCESS;
\* if it reports it rejected (FINAL_FAILURE) the wallet is credited exactly the
\* amount, the withdrawal becomes FAILED and the task is RESOLVED with reason
\* RECONCILED_FINAL_FAILURE; otherwise the task is left as it is.
ResolvesUnknown ==
    [][\A i \in 1..Len(tasks) :
          LET t == tasks[i].transaction
              k == transactions[t].idempotency_key
          IN  (ReconcilerRuns /\ PendingUnknown(i) /\ config.can_query_status)
                 => /\ returned'.raised = None
                    /\ \/ /\ bank[k] = "executed"
                          /\ transactions'[t].status = "SUCCEEDED"
                          /\ transactions'[t].bank_reference = k
                          /\ transactions'[t].external_reference = k
                          /\ balance' = balance
                          /\ tasks'[i].status = "RESOLVED"
                          /\ tasks'[i].reason = "RECONCILED_SUCCESS"
                          /\ returned'.value.resolved_success = 1
                       \/ /\ bank[k] # "executed"
                          /\ transactions'[t].status = "FAILED"
                          /\ balance' = [balance EXCEPT ![transactions[t].wallet] =
                                                            @ + transactions[t].amount]
                          /\ tasks'[i].status = "RESOLVED"
                          /\ tasks'[i].reason = "RECONCILED_FINAL_FAILURE"
                          /\ returned'.value.resolved_failure = 1
                       \/ /\ transactions'[t] = transactions[t]
                          /\ tasks'[i] = tasks[i]
                          /\ balance' = balance]_vars

\* C19: a run of the reconciler over a PENDING task whose withdrawal is
\* UNKNOWN that gets no answer (the gateway has no status endpoint, or the
\* query returns UNKNOWN) changes nothing: the task stays PENDING, the
\* withdrawal UNKNOWN, the balance as it is, and the run returns a summary that
\* counts the task as pending; without a status endpoint no query is made.
UnansweredStaysPending ==
    [][\A i \in 1..Len(tasks) :
          LET t == tasks[i].transaction
          IN  (ReconcilerRuns /\ PendingUnknown(i)
                 /\ (~config.can_query_status \/ tasks'[i] = tasks[i]))
                 => /\ returned'.raised = None
                    /\ returned'.value.pending = 1
                    /\ transactions'[t] = transactions[t]
                    /\ tasks'[i] = tasks[i]
                    /\ balance' = balance
                    /\ ~config.can_query_status
                          => hist'[t].queried_in_unit = hist[t].queried_in_unit]_vars

\* withdrawal t has been PROCESSING for the reconciler's timeout or longer
TimedOut(t) ==
    t \in StaleProcessing(Store, clock, WITHDRAWAL_PROCESSING_TIMEOUT_SECONDS)

\* C20: Phase A of a reconciler run (limit >= 1): the first PROCESSING
\* withdrawal with updated_at <= now - processing_timeout_seconds is moved to
\* UNKNOWN with the balance unchanged, and has a reconciliation task afterwards
\* whose reason is PROCESSING_TIMEOUT_RECONCILIATION_REQUIRED (Phase B of the
\* same run may go on to resolve it); the run counts it as stale_marked_unknown;
\* PROCESSING withdrawals younger than the timeout are not touched.
TimeoutSweepMarksUnknown ==
    [][ReconcilerRuns
          => \A t \in TxIds :
                /\ (TimedOut(t) /\ t = FirstBy(Store, StaleProcessing(Store, clock,
                                            WITHDRAWAL_PROCESSING_TIMEOUT_SECONDS),
                                            "updated_at"))
                      => /\ returned'.raised = None
                         /\ returned'.value.stale_marked_unknown >= 1
                         /\ transactions'[t].status \in {"UNKNOWN", "SUCCEEDED", "FAILED"}
                         /\ transactions'[t].status = "UNKNOWN" => balance' = balance
                         /\ \E i \in 1..Len(tasks') :
                               /\ tasks'[i].transaction = t
                               /\ tasks'[i].status = "PENDING"
                                     => tasks'[i].reason =
                                           "PROCESSING_TIMEOUT_RECONCILIATION_REQUIRED"
                /\ (transactions[t].status = "PROCESSING" /\ ~TimedOut(t))
                      => transactions'[t] = transactions[t]]_vars

\* ------------------------------------------------- the client-facing calls
\* One wallet and an empty transaction table, as the service tests start; the
\* clients deposit, schedule withdrawals (also replaying a key some row has)
\* and call execute_withdrawal. When the table holds MaxTx rows only a call
\* whose key some row has is taken, so no step adds a row beyond MaxTx.
InitClient ==
    /\ clock = 0
    /\ balance \in [Wallets -> 0..InitialBalance]
    /\ transactions = <<>>
    /\ tasks = <<>>
    /\ config \in [bank_honors_idempotency : {TRUE}, bank_always_succeeds : {FALSE},
                   can_query_status : {TRUE}, bank_max_rps : {0, 1}]
    /\ bank = [k \in Keys |-> "none"]
    /\ executors = [e \in Executors |-> IdleExecutor]
    /\ callers = [s \in Callers |-> IdleCaller]
    /\ returned = [call |-> "None", value |-> 0, raised |-> None]
    /\ units = NoUnits
    /\ ensuring = NoEnsure
    /\ hist = <<>>

\* the table has room for a row, or the call's key is one some row has
RoomFor(key) == Len(transactions) < MaxTx \/ key \in UsedKeys

NextClient ==
    \/ Tick
    \/ \E w \in Wallets, amount \in 0..(MaxAmount + 1), key \in {NoKey} \cup Keys :
          /\ RoomFor(key)
          /\ deposit(w, amount, key)
    \/ \E w \in Wallets, amount \in 0..(MaxAmount + 1), execute_at \in 0..(MaxTime + 1),
          key \in {NoKey} \cup Keys :
          /\ RoomFor(key)
          /\ schedule_withdrawal(w, amount, execute_at, key)
    \/ \E s \in Callers, transaction_id \in 0..MaxTx : CallerStart(s, transaction_id)
    \/ \E s \in Callers : CallerTransfer(s)
    \/ \E s \in Callers : CallerFinalize(s)

SpecClient == InitClient /\ [][NextClient]_vars

\* row t has key `key` and the payload (w, amount, execute_at) of a withdrawal
SamePayload(t, w, amount, execute_at, key) ==
    /\ transactions[t].idempotency_key = key
    /\ transactions[t].type = "WITHDRAWAL"
    /\ transactions[t].wallet = w
    /\ transactions[t].amount = amount
    /\ transactions[t].execute_at = execute_at

\* what the dedup of schedule_withdrawal(w, amount, execute_at, key) has to do
\* in this step: return the row that has the key and the payload, refuse a key
\* that another payload has, add one row for a key no row has, and leave the
\* non-null keys unique
DedupsSchedule(w, amount, execute_at, key) ==
    /\ \A t \in TxIds :
          SamePayload(t, w, amount, execute_at, key)
              => /\ returned'.raised = None /\ returned'.value = t
                 /\ UNCHANGED <<transactions, balance, tasks>>
    /\ (key \in UsedKeys /\ \A t \in TxIds : ~SamePayload(t, w, amount, execute_at, key))
          => /\ returned'.raised = "IdempotencyConflict"
             /\ UNCHANGED <<transactions, balance, tasks>>
    /\ (key \notin UsedKeys /\ returned'.raised = None)
          => /\ Len(transactions') = Len(transactions) + 1
             /\ returned'.value = Len(transactions')
             /\ SubSeq(transactions', 1, Len(transactions)) = transactions
    /\ \A t, u \in 1..Len(transactions') :
          (t # u /\ transactions'[t].idempotency_key # NoKey)
              => transactions'[t].idempotency_key # transactions'[u].idempotency_key

\* C21 as stated: every schedule_withdrawal call with an idempotency key dedups,
\* whatever the clock says: the same key and payload return the same
\* transaction id and add no row, the same key with another payload raises
\* IdempotencyConflict and changes nothing, non-null keys stay unique.
ScheduleDedupsAlways ==
    [][\A w \in Wallets, amount \in 0..(MaxAmount + 1), execute_at \in 0..(MaxTime + 1),
          key \in Keys :
          schedule_withdrawal(w, amount, execute_at, key)
              => DedupsSchedule(w, amount, execute_at, key)]_vars

\* C21, amended: the same for every call that passes the validation made
\* before the lookup (amount > 0 and execute_at later than now).
ScheduleDedupsWhenValid ==
    [][\A w \in Wallets, amount \in 0..(MaxAmount + 1), execute_at \in 0..(MaxTime + 1),
          key \in Keys :
          (schedule_withdrawal(w, amount, execute_at, key)
             /\ amount > 0 /\ execute_at > clock)
              => DedupsSchedule(w, amount, execute_at, key)]_vars

\* C21 witness: a schedule_withdrawal call has just returned the id of a row
\* that is not the newest one (a replay of its key), the table holding a second
\* withdrawal with another key.
ScheduleDedupsWhenValidWitness ==
    /\ returned.call = "schedule_withdrawal" /\ returned.raised = None
    /\ returned.value \in TxIds /\ returned.value < Len(transactions)
    /\ \A t \in TxIds : transactions[t].type = "WITHDRAWAL"

\* C22: a deposit with an idempotency key credits only when the transaction is
\* new: on a key no row has, the call adds one SUCCEEDED DEPOSIT row carrying
\* the key and adds amount to the balance; on the key of a deposit with the
\* same wallet and amount it returns that row's id and credits nothing; on a
\* key another payload has it raises IdempotencyConflict, the balance unchanged.
KeyedDepositCreditsOnce ==
    [][\A w \in Wallets, amount \in 1..(MaxAmount + 1), key \in Keys :
          deposit(w, amount, key)
              => /\ key \notin UsedKeys
                    => /\ returned'.raised = None
                       /\ Len(transactions') = Len(transactions) + 1
                       /\ returned'.value = Len(transactions')
                       /\ transactions'[Len(transactions')].type = "DEPOSIT"
                       /\ transactions'[Len(transactions')].status = "SUCCEEDED"
                       /\ transactions'[Len(transactions')].idempotency_key = key
                       /\ balance'[w] = balance[w] + amount
                 /\ \A t \in TxIds :
                       transactions[t].idempotency_key = key
                           => /\ UNCHANGED <<balance, transactions>>
                              /\ IF /\ transactions[t].type = "DEPOSIT"
                                    /\ transactions[t].wallet = w
                                    /\ transactions[t].amount = amount
                                 THEN returned'.raised = None /\ returned'.value = t
                                 ELSE returned'.raised = "IdempotencyConflict"]_vars

\* C23: schedule_withdrawal reserves no funds. A call that succeeds returns a
\* SCHEDULED WITHDRAWAL with the call's wallet, amount and execute_at, the one
\* row it added (none when it replays a key), and leaves every balance as it
\* was, whatever the amount; a call with amount <= 0 or execute_at <= now
\* raises a validation error and adds no row.
ScheduleReservesNothing ==
    [][\A w \in Wallets, amount \in 0..(MaxAmount + 1), execute_at \in 0..(MaxTime + 1),
          key \in {NoKey} \cup Keys :
          (RoomFor(key) /\ schedule_withdrawal(w, amount, execute_at, key))
              => /\ balance' = balance
                 /\ IF amount <= 0 \/ execute_at <= clock
                    THEN /\ returned'.raised \in {"InvalidAmount", "InvalidExecuteAt"}
                         /\ transactions' = transactions
                    ELSE returned'.raised = None
                            => /\ returned'.value \in 1..Len(transactions')
                               /\ transactions'[returned'.value] =
                                      [NewRow(w, "WITHDRAWAL", "SCHEDULED", amount,
                                              execute_at, key)
                                          EXCEPT !.idempotency_key =
                                              transactions'[returned'.value].idempotency_key,
                                                 !.updated_at =
                                              transactions'[returned'.value].updated_at]
                               /\ IF key \in UsedKeys
                                  THEN transactions' = transactions
                                  ELSE /\ returned'.value = Len(transactions) + 1
                                       /\ Len(transactions') = Len(transactions) + 1
                                       /\ SubSeq(transactions', 1, Len(transactions))
                                              = transactions
                               /\ key # NoKey
                                      => transactions'[returned'.value].idempotency_key = key]_vars

\* C23 witness: schedule_withdrawal has just returned a SCHEDULED withdrawal
\* whose amount exceeds the balance of its wallet.
ScheduleReservesNothingWitness ==
    /\ returned.call = "schedule_withdrawal" /\ returned.raised = None
    /\ returned.value \in TxIds
    /\ transactions[returned.value].status = "SCHEDULED"
    /\ transactions[returned.value].amount > balance[transactions[returned.value].wallet]

\* execute_withdrawal(transaction_id) is called on a transaction that does not
\* exist, is no WITHDRAWAL, is not SCHEDULED or is not due yet
NotExecutable(transaction_id) ==
    \/ transaction_id \notin TxIds
    \/ transactions[transaction_id].type # "WITHDRAWAL"
    \/ transactions[transaction_id].status # "SCHEDULED"
    \/ transactions[transaction_id].execute_at > clock

\* C24: execute_withdrawal on a transaction that does not exist, is no
\* WITHDRAWAL, is not SCHEDULED or is not due raises InvalidTransactionState,
\* calls no bank (the call ends in this step, the bank's records untouched) and
\* leaves every row and every balance as it was.
ExecuteRejectsNotExecutable ==
    [][\A s \in Callers, transaction_id \in 0..MaxTx :
          (CallerStart(s, transaction_id) /\ NotExecutable(transaction_id))
              => /\ returned'.call = "execute_withdrawal"
                 /\ returned'.raised = "InvalidTransactionState"
                 /\ callers'[s].pc = "idle"
                 /\ UNCHANGED <<transactions, balance, bank, hist>>]_vars

\* C24 witness: execute_withdrawal has just raised InvalidTransactionState
\* while the table holds a SUCCEEDED or FAILED withdrawal, a deposit, or a
\* withdrawal that is not due.
ExecuteRejectsNotExecutableWitness ==
    /\ returned.call = "execute_withdrawal"
    /\ returned.raised = "InvalidTransactionState"
    /\ \A s \in Callers : callers[s].pc = "idle"
    /\ \E t \in Withdrawals : transactions[t].status \in {"SUCCEEDED", "FAILED"}

\* the step ends the execute_withdrawal call of caller s after its first block
\* debited the wallet and made the withdrawal PROCESSING
EndsExecution(s) ==
    /\ callers[s].pc \in {"bank", "finalize"}
    /\ callers'[s].pc = "idle"

\* C25: when execute_withdrawal on a due SCHEDULED withdrawal with sufficient
\* balance ends and the bank call did not succeed (a failure result, a
\* network_error result, or the gateway raising), the withdrawal is FAILED with
\* a failure reason and the debit has been refunded (the balance is what it
\* was before the call).
FailedExecutionRefunds ==
    [][\A s \in Callers :
          LET t == callers[s].claim.transaction_id
          IN  (EndsExecution(s) /\ transactions'[t].status # "SUCCEEDED")
                  => /\ transactions'[t].status = "FAILED"
                     /\ transactions'[t].failure_reason # None
                     /\ hist'[t].debits = 1 /\ hist'[t].refunds = 1
                     /\ balance'[transactions[t].wallet]
                            = balance[transactions[t].wallet] + transactions[t].amount]_vars

\* C26: BankGateway.transfer makes at most bank_retry_max_attempts HTTP
\* attempts; an attempt is followed by another one exactly when it ended in a
\* network error or an HTTP 429 and was not the last; any other response is
\* classified and ends the call with no further attempt; a network error on
\* the last attempt gives UNKNOWN network_error, a 429 on the last attempt
\* gives FINAL_FAILURE rate_limited.
TransferRetriesTransientOnly ==
    [][\A s \in Callers :
          callers[s].pc = "bank"
              => \A a \in HttpAttempts(callers[s].claim.idempotency_key) :
                    CallerHttpAttempt(s, a)
                        => LET retried == callers'[s].pc = "bank"
                               transient == \/ a.response = NetworkRequestFailed
                                            \/ a.response.status_code = 429
                               last == callers[s].attempt = BANK_RETRY_MAX_ATTEMPTS
                           IN  /\ callers[s].attempt \in 1..BANK_RETRY_MAX_ATTEMPTS
                               /\ retried <=> (transient /\ ~last)
                               /\ retried => callers'[s].attempt = callers[s].attempt + 1
                               /\ (last /\ a.response = NetworkRequestFailed)
                                     => /\ callers'[s].pc = "finalize"
                                        /\ callers'[s].transfer_result =
                                             TransferResult("UNKNOWN", NoKey, "network_error")
                               /\ (last /\ a.response.status_code = 429)
                                     => /\ callers'[s].pc = "finalize"
                                        /\ callers'[s].transfer_result =
                                             TransferResult("FINAL_FAILURE", NoKey,
                                                            "rate_limited")
                               /\ ~transient
                                     => /\ callers'[s].pc = "finalize"
                                        /\ callers'[s].transfer_result.outcome
                                              \in TransferOutcome
                                        /\ callers'[s].attempt = callers[s].attempt]_vars

\* ----------------------------------------------------- the classifier alone
\* The responses http_client.post_json can hand to _normalize_response: an
\* HTTP status code, and a body that is not JSON, JSON that is no object, or a
\* JSON object with or without "status", "data", "error_reason", "reference".
Responses ==
    {Response(c, b, NoTime, None, None, NoKey) :
        c \in {200, 201, 400, 500}, b \in {"garbage", "array"}}
    \cup {Response(c, "object", st, d, er, ref) :
            c \in {200, 201, 400, 500}, st \in {NoTime, 200, 400},
            d \in {None, "success", "failed"}, er \in {None, "bank_rejected"},
            ref \in {NoKey} \cup Keys}

\* post_json has returned a response
InitClassify ==
    /\ clock = 0
    /\ balance = [w \in Wallets |-> InitialBalance]
    /\ transactions = <<>>
    /\ tasks = <<>>
    /\ config \in [bank_honors_idempotency : {TRUE}, bank_always_succeeds : {FALSE},
                   can_query_status : {TRUE}, bank_max_rps : {0}]
    /\ bank = [k \in Keys |-> "none"]
    /\ executors = [e \in Executors |-> IdleExecutor]
    /\ callers = [s \in Callers |-> IdleCaller]
    /\ hist = <<>>
    /\ units = NoUnits
    /\ ensuring = NoEnsure
    /\ returned \in {[call |-> "post_json", value |-> r, raised |-> None] : r \in Responses}

\* result = self._normalize_response(response, fallback_reference=idempotency_key)
NormalizeResponse(idempotency_key) ==
    /\ returned.call = "post_json"
    /\ LET result == _normalize_response(returned.value, idempotency_key)
       IN  IF result.outcome = "RAISED"
           THEN Return("_normalize_response", 0, result.error_reason)
           ELSE Return("_normalize_response", result, None)
    /\ UNCHANGED <<clock, balance, transactions, tasks, config, ensuring, units, bank, executors,
                   callers, hist>>

NextClassify == \E idempotency_key \in Keys : NormalizeResponse(idempotency_key)

SpecClassify == InitClassify /\ [][NextClassify]_vars

\* the outcome the classification rules give a response
Classified(response) ==
    IF /\ response.status_code \in 200..299
       /\ response.body = "object"
       /\ (IF response.status = NoTime THEN response.status_code ELSE response.status) = 200
       /\ response.data = "success"
    THEN "SUCCESS"
    ELSE IF response.body = "garbage" \/ response.status_code >= 500 THEN "UNKNOWN"
    ELSE "FINAL_FAILURE"

\* C27: the classifier is total: for every response that is not a 429 it
\* returns one outcome, SUCCESS iff the HTTP status is 2xx, the body status is
\* 200 and the body data is "success", otherwise UNKNOWN if the body is not
\* JSON or the HTTP status is >= 500, otherwise FINAL_FAILURE.
ClassifierTotal ==
    [][returned.call = "post_json"
          => /\ returned'.call = "_normalize_response"
             /\ returned'.raised = None
             /\ returned'.value.outcome = Classified(returned.value)]_vars

\* C28: rate limiting is fail-open: every pass of the transfer loop acquires a
\* token first, and when the limiter backend is unavailable the HTTP attempt is
\* still sent and the pass ends as the bank's response alone decides (another
\* attempt, the classified result, or the classifier's exception): the limiter
\* failure never becomes the result.
LimiterFailsOpen ==
    [][\A s \in Callers :
          callers[s].pc = "bank"
              => \A a \in HttpAttempts(callers[s].claim.idempotency_key) :
                    (CallerHttpAttempt(s, a) /\ a.limiter = "unavailable")
                        => /\ bank'[callers[s].claim.idempotency_key] = a.bank
                           /\ callers[s].claim.idempotency_key
                                 \in hist'[callers[s].claim.transaction_id].bank_keys
                           /\ returned'.raised # "RateLimiterUnavailable"
                           /\ LET result == transfer_attempt(callers[s].attempt, a.response,
                                                 callers[s].claim.idempotency_key)
                              IN  IF result = NoResult
                                  THEN callers'[s] = [callers[s] EXCEPT !.attempt = @ + 1]
                                  ELSE IF result.outcome = "RAISED"
                                  THEN callers'[s].pc = "idle" /\ returned'.raised = "TypeError"
                                  ELSE callers'[s] = [callers[s] EXCEPT
                                                         !.pc = "finalize",
                                                         !.transfer_result = result]]_vars

\* C28 witness: with the shared limiter configured and its backend unavailable
\* at the only attempt, the transfer was sent, the bank executed it and the
\* result is SUCCESS.
LimiterFailsOpenWitness ==
    /\ config.bank_max_rps > 0
    /\ \E s \in Callers :
          /\ callers[s].pc = "finalize"
          /\ callers[s].attempt = 1
          /\ hist[callers[s].claim.transaction_id].limiter_unavailable
          /\ callers[s].transfer_result.outcome = "SUCCESS"
          /\ bank[callers[s].claim.idempotency_key] = "executed"

\* ------------------------------------------------------------- row locks
\* Each unit of work (a `with transaction.atomic()` block) by the rows its
\* select_for_update() statements lock, one row at a time and in the order
\* of the statements; a statement waits while another session holds the row,
\* and the locks are released together when the block ends.  A statement
\* that inserts a row, and get_or_create() reading one, lock no row that
\* another session can hold.
Row(table, id) == [table |-> table, id |-> id]

\* Transaction.objects.select_for_update()[.select_related("wallet")] and then
\* Wallet.objects.select_for_update().get(pk=tx.wallet_id)
TransactionThenWallet(t) ==
    <<Row("transaction", t), Row("wallet", transactions[t].wallet)>>

Units ==
    {"deposit", "execute_withdrawal.claim", "execute_withdrawal.finalize",
     "_claim_next_due_withdrawal", "_claim_stale_processing_withdrawal",
     "_queue_stale_processing_for_reconciliation", "_finalize_claimed_withdrawal",
     "_resolve_unknown_task", "_mark_stale_processing_unknown"}

\* the units whose first statement is built by _with_execution_lock
WithExecutionLock ==
    {"_claim_next_due_withdrawal", "_claim_stale_processing_withdrawal",
     "_queue_stale_processing_for_reconciliation", "_mark_stale_processing_unknown"}

\* a finalization that locks the wallet row before the transaction row
LockSequenceWalletFirst(kind, id) ==
    CASE kind = "deposit" -> <<Row("wallet", id)>>
      [] kind = "_finalize_claimed_withdrawal" ->
            <<Row("wallet", transactions[id].wallet), Row("transaction", id)>>
      [] kind \in {"execute_withdrawal.claim", "execute_withdrawal.finalize",
                   "_claim_next_due_withdrawal",
                   "_claim_stale_processing_withdrawal"} ->
            TransactionThenWallet(id)
      [] kind \in {"_queue_stale_processing_for_reconciliation",
                   "_mark_stale_processing_unknown"} ->
            <<Row("transaction", id)>>
      [] kind = "_resolve_unknown_task" ->
            <<Row("task", id)>> \o TransactionThenWallet(tasks[id].transaction)

\* the rows a unit of work locks, in the order it locks them
LockSequence(kind, id) ==
    CASE kind = "deposit" -> <<Row("wallet", id)>>
      [] kind \in {"execute_withdrawal.claim", "execute_withdrawal.finalize",
                   "_claim_next_due_withdrawal",
                   "_claim_stale_processing_withdrawal",
                   "_finalize_claimed_withdrawal"} ->
            TransactionThenWallet(id)
      [] kind \in {"_queue_stale_processing_for_reconciliation",
                   "_mark_stale_processing_unknown"} ->
            <<Row("transaction", id)>>
      [] kind = "_resolve_unknown_task" ->
            <<Row("task", id)>> \o TransactionThenWallet(tasks[id].transaction)

\* the rows the first statement of a unit locks (a select_related() join
\* locks the joined row with the row selected)
FirstStatement(kind) ==
    IF kind \in {"_queue_stale_processing_for_reconciliation",
                 "_mark_stale_processing_unknown"}
    THEN 1
    ELSE 2

\* the rows a unit of this kind can be about
UnitTargets(kind) ==
    CASE kind = "deposit" -> Wallets
      [] kind = "_resolve_unknown_task" -> 1..Len(tasks)
      [] OTHER -> Withdrawals

\* the sessions that hold the lock of a row
Holders(row) ==
    {s \in Sessions : \E i \in 1..units[s].held : units[s].rows[i] = row}

\* with transaction.atomic(): the unit opens.  A skip_locked statement takes
\* its rows only when no other session holds one of them, and never waits.
BeginUnit(s, kind, id) ==
    /\ units[s] = IdleUnit
    /\ id \in UnitTargets(kind)
    /\ LET rows == LockSequence(kind, id)
       IN  IF kind \in WithExecutionLock /\ config.has_select_for_update_skip_locked
           THEN /\ \A i \in 1..FirstStatement(kind) : Holders(rows[i]) \subseteq {s}
                /\ units' = [units EXCEPT ![s] = [kind |-> kind, rows |-> rows,
                                                  held |-> FirstStatement(kind),
                                                  target |-> id, written |-> FALSE]]
           ELSE units' = [units EXCEPT ![s] = [kind |-> kind, rows |-> rows,
                                               held |-> 0, target |-> id,
                                               written |-> FALSE]]
    /\ UNCHANGED <<clock, balance, transactions, tasks, config, ensuring, bank, executors,
                   callers, returned, hist>>

\* select_for_update(): the next row of the unit, once no other session holds it
AcquireLock(s) ==
    /\ units[s] # IdleUnit
    /\ units[s].held < Len(units[s].rows)
    /\ Holders(units[s].rows[units[s].held + 1]) \subseteq {s}
    /\ units' = [units EXCEPT ![s].held = @ + 1]
    /\ UNCHANGED <<clock, balance, transactions, tasks, config, ensuring, bank, executors,
                   callers, returned, hist>>

\* the units with a statement Wallet.objects.filter(pk=wallet.pk).update(balance=...)
WritesBalance ==
    {"deposit", "execute_withdrawal.claim", "execute_withdrawal.finalize",
     "_claim_next_due_withdrawal", "_finalize_claimed_withdrawal",
     "_resolve_unknown_task"}

\* a deposit that credits the wallet before it locks the row
LocksBeforeWriteButDeposit(kind) ==
    CASE kind = "deposit" -> 0
      [] kind = "_resolve_unknown_task" -> 3
      [] OTHER -> 2

\* the rows a unit has locked when it comes to its balance update
LocksBeforeWrite(kind) ==
    CASE kind = "deposit" -> 1
      [] kind = "_resolve_unknown_task" -> 3
      [] OTHER -> 2

\* the wallet whose balance the unit updates: wallet.pk of the object it read
WalletWritten(unit) ==
    CASE unit.kind = "deposit" -> unit.target
      [] unit.kind = "_resolve_unknown_task" ->
            transactions[tasks[unit.target].transaction].wallet
      [] OTHER -> transactions[unit.target].wallet

\* update(balance=F("balance") + amount): a credit or a refund
Credits == {"deposit", "execute_withdrawal.finalize", "_finalize_claimed_withdrawal",
            "_resolve_unknown_task"}

\* the balance update of a unit: a credit of one unit of money, or the
\* conditional debit, which changes nothing when the balance is too small
WriteBalance(s) ==
    /\ units[s].kind \in WritesBalance
    /\ ~units[s].written
    /\ units[s].held = LocksBeforeWrite(units[s].kind)
    /\ LET w == WalletWritten(units[s])
       IN  IF units[s].kind \in Credits
           THEN /\ balance[w] < InitialBalance + MaxAmount
                /\ balance' = [balance EXCEPT ![w] = @ + 1]
           ELSE balance' = [balance EXCEPT ![w] = IF ConditionalDebitApplies(@, 1)
                                                  THEN @ - 1 ELSE @]
    /\ units' = [units EXCEPT ![s].written = TRUE]
    /\ UNCHANGED <<clock, transactions, tasks, config, ensuring, bank, executors,
                   callers, returned, hist>>

\* the atomic block ends (commit or rollback): every lock is released
EndUnit(s) ==
    /\ units[s] # IdleUnit
    /\ units[s].held = Len(units[s].rows)
    /\ units' = [units EXCEPT ![s] = IdleUnit]
    /\ UNCHANGED <<clock, balance, transactions, tasks, config, ensuring, bank, executors,
                   callers, returned, hist>>

\* two withdrawals of one wallet, a pending reconciliation task of the first
InitLocks ==
    /\ clock = 0
    /\ balance = [w \in Wallets |-> InitialBalance]
    /\ transactions = <<UnknownWithdrawal, DueWithdrawal(1, 1, 2)>>
    /\ tasks = <<[transaction |-> 1, reason |-> "UNKNOWN_TRANSFER_OUTCOME",
                  status |-> "PENDING", created_at |-> 0]>>
    /\ config \in [bank_honors_idempotency : {TRUE}, bank_always_succeeds : {FALSE},
                   can_query_status : {TRUE}, bank_max_rps : {0},
                   has_select_for_update_skip_locked : BOOLEAN]
    /\ bank = [k \in Keys |-> "none"]
    /\ executors = [e \in Executors |-> IdleExecutor]
    /\ callers = [s \in Callers |-> IdleCaller]
    /\ returned = [call |-> "None", value |-> 0, raised |-> None]
    /\ hist = <<[NewHist EXCEPT !.debits = 1, !.ever_processing = TRUE,
                                !.first_key = 1, !.bank_keys = {1}],
                NewHist>>
    /\ units = NoUnits
    /\ ensuring = NoEnsure

NextLocks ==
    \/ \E s \in Sessions, kind \in Units, id \in 1..MaxTx : BeginUnit(s, kind, id)
    \/ \E s \in Sessions : AcquireLock(s)
    \/ \E s \in Sessions : WriteBalance(s)
    \/ \E s \in Sessions : EndUnit(s)

SpecLocks == InitLocks /\ [][NextLocks]_vars

\* the session waits for a row that the other session holds
WaitsFor(s, other) ==
    /\ s # other
    /\ units[s].held < Len(units[s].rows)
    /\ other \in Holders(units[s].rows[units[s].held + 1])

LockRank(row) ==
    CASE row.table = "task" -> 1
      [] row.table = "transaction" -> 2
      [] row.table = "wallet" -> 3

\* C29: every session holds and awaits its rows in the order task row,
\* transaction row, wallet row (so none takes a transaction lock while it
\* holds a wallet lock), and in no state is there a set of sessions each of
\* which waits for a row another of the set holds: no deadlock.
LocksOrderedNoDeadlock ==
    /\ \A s \in Sessions :
          \A i, j \in 1..Len(units[s].rows) :
              (i < j /\ i <= units[s].held /\ j <= units[s].held + 1)
                  => LockRank(units[s].rows[i]) < LockRank(units[s].rows[j])
    /\ \A D \in SUBSET Sessions :
          D # {} => \E s \in D : \A other \in D : ~WaitsFor(s, other)

\* a reconciler holding its task row waits for the transaction row that a
\* finalization holds, which waits for the wallet row that a deposit holds
LocksOrderedNoDeadlockWitness ==
    \E s1, s2, s3 \in Sessions :
        /\ units[s1].kind = "_resolve_unknown_task"
        /\ units[s1].held = 1
        /\ WaitsFor(s1, s2)
        /\ units[s2].kind = "_finalize_claimed_withdrawal"
        /\ units[s2].held = 1
        /\ WaitsFor(s2, s3)
        /\ units[s3].kind = "deposit"
        /\ units[s3].held = 1

\* ------------------------------------------------- lock contention (C30)
\* C30: a claim step of executor e that meets a locking error changes no
\* row, no balance and no bank record; while fewer than
\* EXECUTOR_LOCK_CONTENTION_MAX_RETRIES consecutive errors have been met the
\* run goes on to claim again with one more error counted, and the error
\* after that ends the run with the summary it has; a claim step that claims
\* a withdrawal sets the count back to 0.
LockContentionRetriesBounded ==
    [][\A e \in Executors :
          /\ executors[e].lock_contention_retries <= EXECUTOR_LOCK_CONTENTION_MAX_RETRIES
          /\ ExecutorLockContention(e) =>
                /\ UNCHANGED <<balance, transactions, tasks, bank, hist>>
                /\ IF executors[e].lock_contention_retries
                          < EXECUTOR_LOCK_CONTENTION_MAX_RETRIES
                   THEN executors'[e] =
                            [executors[e] EXCEPT !.lock_contention_retries = @ + 1]
                   ELSE /\ executors'[e].pc = "idle"
                        /\ returned' = [call |-> "execute_due_withdrawals",
                                        value |-> executors[e].summary,
                                        raised |-> None]
          /\ (ExecutorClaim(e) /\ transactions' # transactions) =>
                executors'[e].lock_contention_retries = 0
    ]_vars

\* an executor has met the errors it tolerates and is about to claim again
\* while a withdrawal is still due, and the other executor has claimed one
LockContentionRetriesBoundedWitness ==
    \E e, other \in Executors :
        /\ executors[e].pc = "claim"
        /\ executors[e].lock_contention_retries = EXECUTOR_LOCK_CONTENTION_MAX_RETRIES
        /\ \E t \in Withdrawals :
              /\ transactions[t].status = "SCHEDULED"
              /\ transactions[t].execute_at <= executors[e].now
        /\ executors[other].pc = "bank"
        /\ executors[other].lock_contention_retries = 0

\* ------------------------------------- ensure_transaction_idempotency_key
\* The function statement by statement, run by two workers on Transaction
\* objects they loaded earlier, so that one worker's statements fall between
\* the other's.  `ensuring[e].idempotency_key` is the key of the object in
\* memory, `transactions[t].idempotency_key` the key of the row.
KeyInUse(key) == \E u \in TxIds : transactions[u].idempotency_key = key

\* an update that leaves out the filter idempotency_key__isnull=True
UpdateKeyOfAnyRow(t, candidate) ==
    [transactions EXCEPT ![t].idempotency_key = candidate]

\* Transaction.objects.filter(pk=transaction.pk, idempotency_key__isnull=True)
\*     .update(idempotency_key=candidate): the table it leaves
UpdateKeyIfNull(t, candidate) ==
    IF transactions[t].idempotency_key = NoKey
    THEN [transactions EXCEPT ![t].idempotency_key = candidate]
    ELSE transactions

EnsureFrame ==
    UNCHANGED <<clock, balance, tasks, config, bank, executors, callers, returned, hist,
                units>>

\* a worker holds the object of row t, as it read it, and calls the function
EnsureCall(e, t) ==
    /\ ensuring[e].pc \in {"idle", "done"}
    /\ t \in TxIds
    /\ ensuring' = [ensuring EXCEPT ![e] =
                       [IdleEnsure EXCEPT !.pc = "called", !.pk = t,
                                          !.idempotency_key = transactions[t].idempotency_key]]
    /\ UNCHANGED transactions
    /\ EnsureFrame

\* lines 12-16: the type check, and the key the object has already
EnsureCheck(e) ==
    /\ ensuring[e].pc = "called"
    /\ LET call == ensuring[e]
       IN  ensuring' = [ensuring EXCEPT ![e] =
              IF transactions[call.pk].type # "WITHDRAWAL"
              THEN [call EXCEPT !.pc = "done", !.raised = "ValueError"]
              ELSE IF call.idempotency_key # NoKey
              THEN [call EXCEPT !.pc = "done", !.result = call.idempotency_key]
              ELSE [call EXCEPT !.pc = "generate", !.attempt = 1]]
    /\ UNCHANGED transactions
    /\ EnsureFrame

\* lines 18-22 and 36: the next of the three candidates (uuid4 may return a
\* key in use), skipped when a row has it; RuntimeError after the third
EnsureCandidate(e) ==
    /\ ensuring[e].pc = "generate"
    /\ IF ensuring[e].attempt > 3
       THEN ensuring' = [ensuring EXCEPT ![e].pc = "done", ![e].raised = "RuntimeError"]
       ELSE \E candidate \in Keys :
               ensuring' = [ensuring EXCEPT ![e] =
                  IF KeyInUse(candidate)
                  THEN [@ EXCEPT !.attempt = @ + 1]
                  ELSE [@ EXCEPT !.pc = "update", !.candidate = candidate]]
    /\ UNCHANGED transactions
    /\ EnsureFrame

\* lines 24-30: the conditional update; the unique column refuses a
\* candidate that another row took since the exists() query
EnsureUpdate(e) ==
    /\ ensuring[e].pc = "update"
    /\ LET t == ensuring[e].pk
           candidate == ensuring[e].candidate
           table == UpdateKeyIfNull(t, candidate)
       IN  IF table # transactions /\ KeyInUse(candidate)
           THEN /\ UNCHANGED transactions
                /\ ensuring' = [ensuring EXCEPT ![e].pc = "done",
                                                ![e].raised = "IntegrityError"]
           ELSE IF table # transactions
           THEN /\ transactions' = table
                /\ ensuring' = [ensuring EXCEPT ![e].pc = "done",
                                                ![e].idempotency_key = candidate,
                                                ![e].result = candidate]
           ELSE /\ UNCHANGED transactions
                /\ ensuring' = [ensuring EXCEPT ![e].pc = "refresh"]
    /\ EnsureFrame

\* lines 32-34: refresh_from_db(fields=["idempotency_key"])
EnsureRefresh(e) ==
    /\ ensuring[e].pc = "refresh"
    /\ LET key == transactions[ensuring[e].pk].idempotency_key
       IN  ensuring' = [ensuring EXCEPT ![e] =
              IF key # NoKey
              THEN [@ EXCEPT !.pc = "done", !.idempotency_key = key, !.result = key]
              ELSE [@ EXCEPT !.pc = "generate", !.idempotency_key = key,
                             !.attempt = @ + 1]]
    /\ UNCHANGED transactions
    /\ EnsureFrame

\* the objects the function is handed: a deposit, and two withdrawals each
\* with a key of its own or with none
EnsureRow(type, key) ==
    [wallet |-> 1, type |-> type,
     status |-> IF type = "DEPOSIT" THEN "SUCCEEDED" ELSE "PROCESSING",
     amount |-> 1, execute_at |-> IF type = "DEPOSIT" THEN NoTime ELSE 0,
     idempotency_key |-> key, external_reference |-> NoKey, bank_reference |-> NoKey,
     failure_reason |-> None, updated_at |-> 0]

InitEnsure ==
    /\ clock = 0
    /\ balance = [w \in Wallets |-> InitialBalance]
    /\ transactions \in {<<EnsureRow("DEPOSIT", NoKey), EnsureRow("WITHDRAWAL", k1),
                           EnsureRow("WITHDRAWAL", k2)>> :
                            k1 \in 0..1, k2 \in {0, 2}}
    /\ tasks = <<>>
    /\ config \in [bank_honors_idempotency : {TRUE}, bank_always_succeeds : {FALSE},
                   can_query_status : {TRUE}, bank_max_rps : {0}]
    /\ bank = [k \in Keys |-> "none"]
    /\ executors = [e \in Executors |-> IdleExecutor]
    /\ callers = [s \in Callers |-> IdleCaller]
    /\ returned = [call |-> "None", value |-> 0, raised |-> None]
    /\ hist = <<NewHist, NewHist, NewHist>>
    /\ units = NoUnits
    /\ ensuring = NoEnsure

NextEnsure ==
    \/ \E e \in Executors, t \in 1..3 : EnsureCall(e, t)
    \/ \E e \in Executors : EnsureCheck(e)
    \/ \E e \in Executors : EnsureCandidate(e)
    \/ \E e \in Executors : EnsureUpdate(e)
    \/ \E e \in Executors : EnsureRefresh(e)

SpecEnsure == InitEnsure /\ [][NextEnsure]_vars

\* C31: ensure_transaction_idempotency_key never overwrites a key (a key a
\* row has stays the key of that row); called on an object that has a key it
\* returns that key and writes nothing; every call that returns, returns the
\* key the row then has, so two calls on one withdrawal, one after the other
\* or interleaved, return the same key; and a key it installs is the key of
\* no other row.
EnsureKeyIsStable ==
    [][/\ \A t \in TxIds :
             /\ transactions[t].idempotency_key # NoKey
                    => transactions'[t].idempotency_key = transactions[t].idempotency_key
             /\ transactions'[t].idempotency_key # transactions[t].idempotency_key
                    => \A u \in TxIds \ {t} :
                          /\ transactions[u].idempotency_key
                                 # transactions'[t].idempotency_key
                          /\ transactions'[u].idempotency_key
                                 # transactions'[t].idempotency_key
       /\ \A e \in Executors :
             /\ (/\ ensuring[e].pc = "called"
                 /\ ensuring[e].idempotency_key # NoKey
                 /\ ensuring'[e].pc # "called")
                    => /\ ensuring'[e].pc = "done"
                       /\ ensuring'[e].raised = None
                       /\ ensuring'[e].result = ensuring[e].idempotency_key
                       /\ UNCHANGED transactions
             /\ (ensuring'[e].pc = "done" /\ ensuring'[e].raised = None)
                    => /\ ensuring'[e].result # NoKey
                       /\ ensuring'[e].result
                              = transactions'[ensuring'[e].pk].idempotency_key
      ]_vars

\* two workers ran the function on one keyless withdrawal at once: the first
\* installed its candidate, the second had another candidate and returned
\* the key of the first
EnsureKeyIsStableWitness ==
    \E e, other \in Executors :
        /\ e # other
        /\ ensuring[e].pc = "done" /\ ensuring[other].pc = "done"
        /\ ensuring[e].raised = None /\ ensuring[other].raised = None
        /\ ensuring[e].pk = ensuring[other].pk
        /\ ensuring[e].candidate = ensuring[e].result
        /\ ensuring[other].candidate # NoKey
        /\ ensuring[other].candidate # ensuring[other].result
        /\ ensuring[other].result = ensuring[e].result

\* --------------------------------------------- the due boundary (C32)
\* withdrawal t is SCHEDULED with execute_at equal to the `now` of the run
\* of executor e
ScheduledAtNow(e, t) ==
    /\ t \in Withdrawals
    /\ transactions[t].status = "SCHEDULED"
    /\ transactions[t].execute_at = executors[e].now

\* C32 as stated: a claim step of executor e leaves alone a SCHEDULED
\* withdrawal whose execute_at equals the run's `now`: no status change, no
\* debit, no claim of it.
ClaimSkipsExecuteAtNow ==
    [][\A e \in Executors, t \in TxIds :
          (ExecutorClaim(e) /\ ScheduledAtNow(e, t))
              => /\ transactions'[t].status = "SCHEDULED"
                 /\ hist'[t].debits = hist[t].debits
                 /\ executors'[e].claim.transaction_id # t
      ]_vars

\* C32, amended: a SCHEDULED withdrawal whose execute_at equals the run's
\* `now` is due: a claim step of executor e takes it when no SCHEDULED
\* withdrawal precedes it in (execute_at, id) order, debiting the wallet and
\* making it PROCESSING, or making it FAILED when the balance is too small.
ClaimTakesExecuteAtNow ==
    [][\A e \in Executors, t \in TxIds :
          (/\ ExecutorClaim(e)
           /\ ScheduledAtNow(e, t)
           /\ \A u \in Withdrawals \ {t} :
                 transactions[u].status = "SCHEDULED"
                     => \/ transactions[u].execute_at > transactions[t].execute_at
                        \/ /\ transactions[u].execute_at = transactions[t].execute_at
                           /\ u > t)
              => \/ /\ transactions'[t].status = "PROCESSING"
                    /\ hist'[t].debits = hist[t].debits + 1
                    /\ balance'[transactions[t].wallet]
                           = balance[transactions[t].wallet] - transactions[t].amount
                    /\ executors'[e].claim.transaction_id = t
                 \/ /\ transactions'[t].status = "FAILED"
                    /\ transactions'[t].failure_reason = "INSUFFICIENT_FUNDS"
                    /\ balance[transactions[t].wallet] < transactions[t].amount
                    /\ UNCHANGED balance
      ]_vars

\* an executor holds the claim of a withdrawal whose execute_at is its `now`
ClaimTakesExecuteAtNowWitness ==
    \E e \in Executors, t \in Withdrawals :
        /\ executors[e].pc = "bank"
        /\ executors[e].claim.transaction_id = t
        /\ transactions[t].execute_at = executors[e].now
        /\ transactions[t].status = "PROCESSING"
        /\ hist[t].debits = 1

\* ------------------------------------------ balance writes under lock (C33)
\* C33: every step that changes the balance of a wallet is the balance
\* update of a session whose unit of work holds the lock of that wallet's
\* row, before and after the write.
BalanceWrittenUnderLock ==
    [][\A w \in Wallets :
          balance'[w] # balance[w]
              => \E s \in Sessions :
                    /\ units'[s] # units[s]
                    /\ s \in Holders(Row("wallet", w))
                    /\ \E i \in 1..units'[s].held : units'[s].rows[i] = Row("wallet", w)
                    /\ \A other \in Sessions \ {s} : units'[other] = units[other]
      ]_vars

\* a deposit has credited the wallet under its lock while a finalization
\* that has yet to refund waits for the wallet row
BalanceWrittenUnderLockWitness ==
    \E s, other \in Sessions :
        /\ units[s].kind = "deposit"
        /\ units[s].written
        /\ balance[units[s].target] = InitialBalance + 1
        /\ units[other].kind = "_finalize_claimed_withdrawal"
        /\ ~units[other].written
        /\ WaitsFor(other, s)

\* ------------------------------------- commits around the bank call (C34)
\* C34: when an executor makes an HTTP attempt of the bank transfer for the
\* withdrawal it claimed, the debit and the PROCESSING status of that
\* withdrawal are committed already (it is not SCHEDULED and not FAILED for
\* insufficient funds) and the attempt commits nothing; the finalize step of
\* the executor runs with the result the transfer returned, after a request
\* was sent; and no withdrawal without a committed debit has had a request
\* sent for it.
BankCallBetweenCommits ==
    [][/\ \A e \in Executors :
             LET t == executors[e].claim.transaction_id
             IN  /\ ExecutorTransfer(e)
                        => /\ t \in Withdrawals
                           /\ hist[t].debits >= 1
                           /\ hist[t].ever_processing
                           /\ transactions[t].status # "SCHEDULED"
                           /\ transactions[t].failure_reason # "INSUFFICIENT_FUNDS"
                           /\ UNCHANGED <<transactions, balance, tasks>>
                 /\ ExecutorFinalize(e)
                        => /\ executors[e].transfer_result.outcome \in TransferOutcome
                           /\ hist[t].bank_keys # {}
       /\ \A u \in TxIds :
             hist'[u].bank_keys # {}
                 => /\ hist'[u].debits >= 1
                    /\ transactions'[u].status # "SCHEDULED"
                    /\ transactions'[u].failure_reason # "INSUFFICIENT_FUNDS"
      ]_vars

\* one withdrawal was claimed, sent to the bank and finalized; the other
\* failed for insufficient funds and no request was sent for it
BankCallBetweenCommitsWitness ==
    \E t, u \in Withdrawals :
        /\ transactions[t].status = "SUCCEEDED"
        /\ hist[t].debits = 1 /\ hist[t].bank_keys # {}
        /\ transactions[u].status = "FAILED"
        /\ transactions[u].failure_reason = "INSUFFICIENT_FUNDS"
        /\ hist[u].debits = 0 /\ hist[u].bank_keys = {}

\* ------------------------------------------ the order of claims (C35)
\* one wallet that covers both withdrawals; the withdrawal with the greater
\* id has the earlier execute_at, and the other is not due before the clock
\* reaches MaxTime
InitDueOrder ==
    /\ clock = 0
    /\ balance = [w \in Wallets |-> InitialBalance + 1]
    /\ transactions = <<[DueWithdrawal(1, 1, 1) EXCEPT !.execute_at = MaxTime],
                        DueWithdrawal(1, 1, 2)>>
    /\ tasks = <<>>
    /\ config \in [bank_honors_idempotency : BOOLEAN, bank_always_succeeds : {FALSE},
                   can_query_status : {TRUE}, bank_max_rps : {0}]
    /\ bank = [k \in Keys |-> "none"]
    /\ executors = [e \in Executors |-> IdleExecutor]
    /\ callers = [s \in Callers |-> IdleCaller]
    /\ returned = [call |-> "None", value |-> 0, raised |-> None]
    /\ units = NoUnits
    /\ ensuring = NoEnsure
    /\ hist = <<NewHist, NewHist>>

SpecDueOrder == InitDueOrder /\ [][NextTwoDue]_vars

\* withdrawal u is SCHEDULED and due in the run of executor e
ScheduledAndDue(e, u) ==
    /\ u \in Withdrawals
    /\ transactions[u].status = "SCHEDULED"
    /\ transactions[u].execute_at <= executors[e].now

\* C35: a claim step of executor e changes a row only if the row is (1) a
\* SCHEDULED withdrawal with execute_at <= now that no other SCHEDULED due
\* withdrawal precedes in (execute_at, id) order, or (2) a PROCESSING
\* withdrawal, stale and with execute_at <= now, in a state with no
\* SCHEDULED due withdrawal; the step that fails on a stale row is taken in
\* such a state too; and a withdrawal that an executor holds, that has been
\* debited or that has had a request sent has execute_at <= that `now`.
ClaimsInDueOrder ==
    [][/\ \A e \in Executors, t \in TxIds :
             (ExecutorClaim(e) /\ transactions'[t] # transactions[t])
                 => /\ transactions[t].type = "WITHDRAWAL"
                    /\ transactions[t].execute_at <= executors[e].now
                    /\ \/ /\ transactions[t].status = "SCHEDULED"
                          /\ \A u \in TxIds \ {t} :
                                ScheduledAndDue(e, u)
                                    => \/ transactions[t].execute_at
                                              < transactions[u].execute_at
                                       \/ /\ transactions[t].execute_at
                                                 = transactions[u].execute_at
                                          /\ t < u
                       \/ /\ transactions[t].status = "PROCESSING"
                          /\ transactions[t].updated_at
                                 <= executors[e].now - WITHDRAWAL_PROCESSING_STALE_SECONDS
                          /\ \A u \in TxIds : ~ScheduledAndDue(e, u)
       /\ \A e \in Executors :
             (ExecutorClaim(e) /\ returned'.raised = "AttributeError")
                 => \A u \in TxIds : ~ScheduledAndDue(e, u)
       /\ \A e \in Executors :
             executors'[e].claim.transaction_id # 0
                 => transactions'[executors'[e].claim.transaction_id].execute_at
                        <= executors'[e].now
       /\ \A t \in TxIds :
             (hist'[t].debits > 0 \/ hist'[t].bank_keys # {})
                 => transactions'[t].execute_at <= clock'
      ]_vars

\* an executor whose `now` is MaxTime holds the withdrawal with the later
\* execute_at, after the one with the earlier execute_at and the greater id
\* was claimed, while that one is stale and still PROCESSING
ClaimsInDueOrderWitness ==
    \E e \in Executors :
        /\ executors[e].pc = "bank"
        /\ executors[e].now = MaxTime
        /\ executors[e].claim.transaction_id = 1
        /\ transactions[1].status = "PROCESSING"
        /\ transactions[2].status = "PROCESSING"
        /\ transactions[2].updated_at <= executors[e].now - WITHDRAWAL_PROCESSING_STALE_SECONDS

\* ---------------------------------------------------- updated_at (C36)
\* C36: updated_at of a row never decreases; a step that changes the status
\* of a row, and a stale reclaim, set it to the time of the step; a row is
\* reclaimed only when its updated_at lies at least
\* WITHDRAWAL_PROCESSING_STALE_SECONDS back, and a claim step leaves alone
\* a PROCESSING row written more recently than that: so between two
\* reclaims of a row, and between its claim and a reclaim, a stale window
\* passes.
UpdatedAtGuardsReclaim ==
    [][\A t \in TxIds :
          /\ transactions'[t].updated_at >= transactions[t].updated_at
          /\ transactions'[t].status # transactions[t].status
                 => transactions'[t].updated_at = clock'
          /\ \A e \in Executors :
                /\ Reclaims(e, t)
                       => /\ transactions[t].updated_at
                                 <= clock - WITHDRAWAL_PROCESSING_STALE_SECONDS
                          /\ transactions'[t].updated_at = clock'
                /\ (/\ ExecutorClaim(e)
                    /\ transactions[t].status = "PROCESSING"
                    /\ transactions[t].updated_at
                           > clock - WITHDRAWAL_PROCESSING_STALE_SECONDS)
                       => /\ transactions'[t] = transactions[t]
                          /\ executors'[e].claim.transaction_id # t
      ]_vars

\* a withdrawal claimed by one executor was reclaimed a stale window later by
\* the other, which stamped it, while the remaining runs go on
UpdatedAtGuardsReclaimWitness ==
    \E t \in Withdrawals, e, other \in Executors :
        /\ e # other
        /\ executors[e].claim.transaction_id = t
        /\ executors[other].claim.transaction_id = t
        /\ executors[e].pc = "bank" /\ executors[other].pc = "bank"
        /\ transactions[t].status = "PROCESSING"
        /\ hist[t].debits = 1
        /\ transactions[t].updated_at = clock
        /\ clock >= WITHDRAWAL_PROCESSING_STALE_SECONDS

\* ------------------------------------------- draining the queue (C37)
\* The periodic reconciler over the table of InitPendingTask: it is run again
\* and again with limit = MaxLimit, and a run that can change a task is
\* eventually one that does (the bank's status endpoint, which has an answer
\* for the key, is not unreachable for ever).
FairDrain ==
    /\ WF_vars(reconcile_withdrawals(MaxLimit))
    /\ SF_vars(reconcile_withdrawals(MaxLimit) /\ tasks' # tasks)

SpecDrain == InitPendingTask /\ [][NextCrash]_vars /\ FairDrain

\* task i is PENDING and the status endpoint is configured
DrainablePending(i) ==
    IF i <= Len(tasks)
    THEN tasks[i].status = "PENDING" /\ config.can_query_status
    ELSE FALSE

\* task i is RESOLVED and its withdrawal is SUCCEEDED or FAILED
Drained(i) ==
    IF i <= Len(tasks)
    THEN /\ tasks[i].status = "RESOLVED"
         /\ transactions[tasks[i].transaction].status \in {"SUCCEEDED", "FAILED"}
    ELSE FALSE

\* C37: every PENDING reconciliation task of a withdrawal whose key the
\* bank's status endpoint can answer for is eventually RESOLVED, with its
\* withdrawal SUCCEEDED or FAILED.
ReconcilerDrains == \A i \in 1..MaxTx : DrainablePending(i) ~> Drained(i)

\* ------------------------------------------- the summary of a run (C38)
\* the relations between the counters of a run with the given limit
SummaryConsistent(summary, limit) ==
    /\ \A f \in DOMAIN summary : summary[f] >= 0
    /\ summary.processed <= limit
    /\ summary.processed =
           summary.succeeded + summary.failed + summary.reconciliation_queued
    /\ summary.insufficient_funds <= summary.failed
    /\ summary.unknown <= summary.reconciliation_queued

\* the step is the run of executor e returning its summary
ReturnsSummary(e) ==
    /\ executors[e].pc # "idle"
    /\ executors'[e].pc = "idle"
    /\ returned'.raised = None

\* C38: the counters of a run of execute_due_withdrawals are consistent while
\* it runs and in the summary it returns: processed <= limit, processed =
\* succeeded + failed + reconciliation_queued, insufficient_funds <= failed and
\* unknown <= reconciliation_queued; a skipped finalize moves no counter; and a
\* run with limit <= 0 returns the all-zero summary with every row, balance,
\* task and the bank left as they were.
SummaryCountersConsistent ==
    [][\A e \in Executors :
          /\ executors'[e].pc # "idle"
                => SummaryConsistent(executors'[e].summary, executors'[e].limit)
          /\ ReturnsSummary(e)
                => /\ returned'.call = "execute_due_withdrawals"
                   /\ SummaryConsistent(returned'.value, executors[e].limit)
          /\ FinalizesFinished(e) => SummaryAfter(e) = executors[e].summary
          /\ \A limit \in -1..0 :
                ExecutorStart(e, limit)
                    => /\ returned'.call = "execute_due_withdrawals"
                       /\ returned'.raised = None
                       /\ returned'.value = ZeroSummary
                       /\ UNCHANGED <<balance, transactions, tasks, bank, hist>>]_vars

\* C38 witness: a run has just returned a summary that counts a withdrawal the
\* bank executed as processed and succeeded, at the limit of the run, and the
\* withdrawal is SUCCEEDED.
SummaryCountersConsistentWitness ==
    /\ returned.call = "execute_due_withdrawals"
    /\ returned.raised = None
    /\ returned.value.processed = MaxLimit
    /\ returned.value.succeeded = 1
    /\ \E t \in Withdrawals : transactions[t].status = "SUCCEEDED"

\* ------------------------------------------- termination of a run (C39)
\* one step of the run of executor e: the claim step, its locking error, one
\* HTTP attempt of the bank call, or the finalize step
ExecutorStep(e) ==
    \/ ExecutorClaim(e)
    \/ ExecutorLockContention(e)
    \/ ExecutorTransfer(e)
    \/ ExecutorFinalize(e)

\* a worker that has entered the loop goes on executing it: every statement,
\* and every bank call, returns
FairRun == \A e \in Executors : WF_vars(ExecutorStep(e))

\* the runs of the workers over the table of InitDueOrder
SpecRun == InitDueOrder /\ [][NextTwoDue]_vars /\ FairRun

\* C39: a run of execute_due_withdrawals whose statements and bank calls all
\* return ends: whatever locking errors, stale reclaims and skipped finalizes
\* it meets, a worker that is in the loop is eventually out of it.
RunTerminates ==
    \A e \in Executors : (executors[e].pc # "idle") ~> (executors[e].pc = "idle")

\* C39 witness: a run that has counted nothing yet is at its claim step after
\* the maximum number of consecutive locking errors, long enough after it
\* started that the PROCESSING withdrawal another worker holds at its finalize
\* step is stale for it.
RunTerminatesWitness ==
    \E e \in Executors, f \in Executors, t \in Withdrawals :
        /\ e # f
        /\ executors[e].pc = "claim"
        /\ executors[e].summary.processed = 0
        /\ executors[e].lock_contention_retries = EXECUTOR_LOCK_CONTENTION_MAX_RETRIES
        /\ executors[f].pc = "finalize"
        /\ executors[f].claim.transaction_id = t
        /\ t \in StaleProcessing(Store, executors[e].now,
                                 WITHDRAWAL_PROCESSING_STALE_SECONDS)

\* ------------------------------------- the life of a reconciliation task (C40)
\* The tables _resolve_unknown_task is written for (lines 29-42): the
\* withdrawal of the task is UNKNOWN, or SUCCEEDED or FAILED already, and the
\* task is PENDING, or RESOLVED already beside a finished withdrawal.
LifecycleTables ==
    {<<"UNKNOWN", "PENDING">>, <<"SUCCEEDED", "PENDING">>, <<"FAILED", "PENDING">>,
     <<"SUCCEEDED", "RESOLVED">>, <<"FAILED", "RESOLVED">>}

\* the withdrawal with the task, in the given status, and what has been done
\* with it
TaskWithdrawal(status) ==
    [UnknownWithdrawal EXCEPT
        !.status = status,
        !.failure_reason = IF status = "UNKNOWN" THEN "RECONCILIATION_REQUIRED"
                           ELSE IF status = "FAILED" THEN "BANK_TRANSFER_FAILED"
                           ELSE None,
        !.bank_reference = IF status = "SUCCEEDED" THEN 1 ELSE NoKey,
        !.external_reference = IF status = "SUCCEEDED" THEN 1 ELSE NoKey]

TaskWithdrawalHist(status) ==
    [NewHist EXCEPT !.debits = 1, !.ever_processing = TRUE, !.first_key = 1,
                    !.bank_keys = {1},
                    !.refunds = IF status = "FAILED" THEN 1 ELSE 0,
                    !.refund_outcome = IF status = "FAILED" THEN "FINAL_FAILURE" ELSE None]

InitLifecycle ==
    /\ clock = 0
    /\ balance = [w \in Wallets |-> InitialBalance]
    /\ \E table \in LifecycleTables :
          /\ transactions = <<TaskWithdrawal(table[1]), DueWithdrawal(1, 1, 2)>>
          /\ tasks = <<[transaction |-> 1,
                        reason |-> IF table[2] = "PENDING" THEN "UNKNOWN_TRANSFER_OUTCOME"
                                   ELSE IF table[1] = "SUCCEEDED" THEN "RECONCILED_SUCCESS"
                                   ELSE "RECONCILED_FINAL_FAILURE",
                        status |-> table[2], created_at |-> 0]>>
          /\ hist = <<TaskWithdrawalHist(table[1]), NewHist>>
          /\ bank \in {[k \in Keys |-> IF k = 1 THEN b ELSE "none"] :
                          b \in IF table[1] = "SUCCEEDED" THEN {"executed"}
                                ELSE IF table[1] = "FAILED" THEN {"rejected"}
                                ELSE {"none", "executed", "rejected"}}
    /\ config \in [bank_honors_idempotency : BOOLEAN, bank_always_succeeds : {FALSE},
                   can_query_status : BOOLEAN, bank_max_rps : {0}]
    /\ executors = [e \in Executors |-> IdleExecutor]
    /\ callers = [s \in Callers |-> IdleCaller]
    /\ returned = [call |-> "None", value |-> 0, raised |-> None]
    /\ units = NoUnits
    /\ ensuring = NoEnsure

SpecLifecycle == InitLifecycle /\ [][NextCrash]_vars

\* no withdrawal has two tasks, and the withdrawal of a RESOLVED task is
\* SUCCEEDED or FAILED
TasksWellFormed ==
    /\ \A i, j \in 1..Len(tasks) : tasks[i].transaction = tasks[j].transaction => i = j
    /\ \A i \in 1..Len(tasks) :
          tasks[i].status = "RESOLVED"
              => transactions[tasks[i].transaction].status \in {"SUCCEEDED", "FAILED"}

\* the step keeps every task there is, reopens none, and a task it adds is a
\* PENDING task of a withdrawal it moves to UNKNOWN (a run of the reconciler,
\* which is several units of work, may have gone on to resolve the task it
\* added)
TasksStepWellFormed ==
    /\ Len(tasks') >= Len(tasks)
    /\ \A i \in 1..Len(tasks) :
          /\ tasks'[i].transaction = tasks[i].transaction
          /\ tasks[i].status = "RESOLVED" => tasks'[i].status = "RESOLVED"
    /\ \A i \in (Len(tasks) + 1)..Len(tasks') :
          /\ transactions[tasks'[i].transaction].type = "WITHDRAWAL"
          /\ transactions[tasks'[i].transaction].status # "UNKNOWN"
          /\ \/ /\ tasks'[i].status = "PENDING"
                /\ transactions'[tasks'[i].transaction].status = "UNKNOWN"
             \/ /\ returned'.call = "reconcile_withdrawals"
                /\ tasks'[i].status = "RESOLVED"
                /\ tasks'[i].reason \in {"RECONCILED_SUCCESS", "RECONCILED_FINAL_FAILURE"}

\* C40: the life of a reconciliation task: a withdrawal has at most one task;
\* a task is created PENDING, and only for a withdrawal that the same step
\* moves to UNKNOWN; a RESOLVED task stays RESOLVED; and the withdrawal of a
\* RESOLVED task is SUCCEEDED or FAILED.
TaskLifecycle == []TasksWellFormed /\ [][TasksStepWellFormed]_vars

\* C40 witness: the reconciler has just resolved a task that was PENDING beside
\* a withdrawal already SUCCEEDED or FAILED: the task is RESOLVED with reason
\* ALREADY_SUCCEEDED or ALREADY_FAILED, it is the only task of its withdrawal,
\* and the run counted it.
TaskLifecycleWitness ==
    /\ returned.call = "reconcile_withdrawals"
    /\ returned.raised = None
    /\ returned.value.resolved = 1
    /\ \E i \in 1..Len(tasks) :
          /\ tasks[i].status = "RESOLVED"
          /\ tasks[i].reason \in {"ALREADY_SUCCEEDED", "ALREADY_FAILED"}
          /\ transactions[tasks[i].transaction].status \in {"SUCCEEDED", "FAILED"}

====
